---- MODULE Spec2Model ----
(***************************************************************************)
(* Nimbus crawler: the crawl-and-parse coordination plane.                 *)
(*                                                                         *)
(* The model covers the URL table (internal/database/models), the stream   *)
(* consumer with its Ack/Nack handles (internal/queue), the crawler worker *)
(* (internal/crawler), the parser worker (internal/parser) and the retry   *)
(* backoff.  The relational store, the stream broker and the object store  *)
(* are modelled by the statements the code sends to them.                  *)
(***************************************************************************)
EXTENDS Integers, Sequences, FiniteSets, TLC

\* ------------------------------------------------------------------ bounds
MaxStream == 3          \* entries ever appended to one stream
MaxReclaims == 1        \* XAUTOCLAIM rounds that hand entries out again
MaxTasks == 3           \* retry re-publish tasks ever scheduled
MaxFaults == 1          \* calls to a backing service that fail in one run
JitterSteps == 16       \* rand.Float64() is drawn from {j / JitterSteps : j < JitterSteps}
MaxRetryArg == 3        \* largest retry count given to backoffDuration alone
MaxRetries == 2         \* cfg.MaxRetries of the deployment modelled
MaxDepth == 1           \* cfg.MaxDepth of the deployment modelled
MaxTicks == 4           \* clock ticks (of a quarter second) one run lasts
MaxCalls == 4           \* calls of RateLimiter.Allow in one run
MaxLimit == 2           \* largest limit given to RateLimiter.Allow
RandMax == 2            \* math.random(1000000) is drawn from 1 .. RandMax

\* ------------------------------------------------------- program constants
BackoffJitterPermille == 500    \* backoffJitterFactor = 0.5
MsPerSecond == 1000             \* time.Second in milliseconds
BackpressureThreshold == 80000  \* const backpressureThreshold int64 = 80000

\* ---------------------------------------------------------------- universe
URLs == {"u1", "u2"}            \* well-formed URLs of one domain
InvalidURL == "%zz"             \* a string url.Parse rejects
Domain == "d1"
Seeds == {"u1"}
Links == [u \in URLs |-> IF u = "u1" THEN {"u2"} ELSE {}]
PageBody == [u \in URLs |-> "b1"]          \* both pages serve the same bytes
CW == {"c1", "c2"}              \* crawler workers
PW == {"p1", "p2"}              \* parser workers (cfg.Workers goroutines)
Workers == CW \cup PW
Streams == {"frontier", "parse"}
StreamOf(w) == IF w \in CW THEN "frontier" ELSE "parse"

NoRow == "none"
StatusPending == "pending"
StatusCrawling == "crawling"
StatusCrawled == "crawled"
StatusParsed == "parsed"
StatusFailed == "failed"
StatusSkipped == "skipped"
Null == "null"

\* ---------------------------------------------------------------- messages
\* queue.URLMessage / queue.ParseMessage as carried in the "payload" field.
URLMsg(u, k) == [kind |-> "url", url |-> u, depth |-> k, link |-> Null]
Link(u) == "nimbus-html/" \o u               \* HTMLBucket + "/" + HTMLKey(url)
TextLink(u) == "nimbus-text/" \o u           \* TextBucket + "/" + TextKey(url)
BadLink == "nokey"                           \* a locator without a "/"
ParseMsg(u, l, k) == [kind |-> "parse", url |-> u, depth |-> k, link |-> l]
BadPayload == [kind |-> "bad", url |-> Null, depth |-> 0, link |-> Null]
EmptyPayload == [kind |-> "empty", url |-> Null, depth |-> 0, link |-> Null]
ContentHash(b) == "sha256:" \o b             \* injective on the bodies modelled

\* --------------------------------------------------------------- variables
VARIABLES
    urls,         \* the urls table: URL -> row (status "none": no row)
    domainRows,   \* the domains table: set of domain names
    domainCache,  \* per process (named by its stream): the in-process sync.Map
    htmlStore,    \* bucket nimbus-html: URL -> body or Null
    textStore,    \* bucket nimbus-text: set of URLs with a text blob
    stream,       \* stream -> sequence of payloads, entry id = index
    dlq,          \* stream -> sequence of payloads of its DLQ
    pel,          \* stream -> pending-entries list of its consumer group
    lastId,       \* stream -> last id delivered by XREADGROUP ">"
    readBatch,    \* stream -> entries the read loop still has to send
    reclaimBatch, \* stream -> entries the reclaim loop still has to send
    reclaims,     \* stream -> XAUTOCLAIM rounds that returned entries
    running,      \* stream -> the consumer's loops have not exited
    wk,           \* worker -> its position in processMessage and its locals
    retryTasks,   \* the crawler's retry goroutines, in scheduling order
    seeds,        \* lines of the seed file not processed yet
    ctxDone,      \* process (named by its stream) -> root context cancelled
    faults,       \* calls to a backing service that have failed so far
    arg,          \* input of the stand-alone backoffDuration evaluation
    out,          \* its result in milliseconds, or -1
    idle,         \* stream -> pending entries idle for more than reclaimMinIdle
    backlog,      \* entries on the Frontier stream besides those in stream
    now,          \* time.Now().UnixMilli() of the clock all callers share
    zset,         \* the sorted set ratelimit:<domain>: its (score, member) pairs
    expireAt,     \* the time its key expires at, or -1 without a key
    rlArgs,       \* windowMs and limit the callers of one run pass to Allow
    rlLast,       \* calls of Allow so far and the result of the last one
    granted,      \* timestamps of the calls of Allow that returned true
    lw,           \* crawler worker -> its position in WaitForAllow and Fetch
    fetched,      \* the times at which a fetch of the domain was started
    dnsCache,     \* the keys dns:<host> of the cache broker: host -> value or NoKey
    dnsLast,      \* the last call of DNSCache.LookupHost and what it returned
    counter,      \* ProxyPool.counter, kept modulo the number of proxies
    unhealthy,    \* the proxies with a key proxy:health:<proxy> at the broker
    fetchLast,    \* the last call of Fetcher.Fetch: its attempts and its result
    rcache,       \* the key robots:<domain> of the cache broker
    rdom,         \* the row of the domain in the domains table, as the checker sees it
    rLast,        \* the last call of Checker.IsAllowed and what it returned
    reaped,       \* the last run of the stale-claim reaper and the claim after it
    crun,         \* the goroutines Consumer.Run started, its WaitGroup and channel
    runDone,      \* Crawler.Run has returned
    pb,           \* one call of PublishURLBatch: its input, progress and result
    pins          \* the parser's insert block: tables, domain set, workers' locals

vars == <<urls, domainRows, domainCache, htmlStore, textStore, stream, dlq, pel,
          lastId, readBatch, reclaimBatch, reclaims, running, wk, retryTasks,
          seeds, ctxDone, faults, arg, out, idle, backlog, now, zset, expireAt,
          rlArgs, rlLast, granted, lw, fetched, dnsCache, dnsLast,
          counter, unhealthy, fetchLast, rcache, rdom, rLast, reaped, crun, runDone,
          pb, pins>>

dbVars == <<urls, domainRows>>
blobVars == <<htmlStore, textStore>>
brokerVars == <<stream, dlq, pel, lastId, readBatch, reclaimBatch, reclaims, running>>
envVars == <<seeds, ctxDone>>
backoffVars == <<arg, out>>
limiterVars == <<now, zset, expireAt, rlArgs, rlLast, granted, lw, fetched>>
dnsVars == <<dnsCache, dnsLast>>
proxyVars == <<counter, unhealthy, fetchLast>>
robotsVars == <<rcache, rdom, rLast>>
restVars == <<robotsVars, reaped, crun, runDone, pb, pins>>
auxVars == <<limiterVars, dnsVars, proxyVars, restVars>>
coreVars == <<dbVars, domainCache, blobVars, brokerVars, wk, retryTasks, envVars,
              faults, backoffVars, idle, backlog>>
otherVars == <<coreVars, proxyVars, restVars>>
baseVars == <<coreVars, limiterVars, dnsVars, proxyVars>>
fnVars == <<backoffVars, idle, backlog, auxVars>>

Hosts == {"h1", "h2"}
NoKey == <<-1>>                 \* GET answers redis.Nil: the key does not exist
NoLookup == [host |-> Null, hit |-> FALSE, seen |-> <<>>, ip |-> <<>>, err |-> TRUE]

\* A run in which nothing is looked up.
DnsIdle ==
    /\ dnsCache = [h \in Hosts |-> NoKey]
    /\ dnsLast = NoLookup

\* A run in which nothing calls the rate limiter directly.
LimiterIdle ==
    /\ now = 0
    /\ zset = {}
    /\ expireAt = -1
    /\ rlArgs = [windowMs |-> 0, limit |-> 0]
    /\ rlLast = [n |-> 0, allowed |-> FALSE]
    /\ granted = <<>>
    /\ lw = [w \in CW |-> [pc |-> "off", ts |-> 0, wake |-> 0]]
    /\ fetched = <<>>

NoFetch == [url |-> Null, attempts |-> <<>>, err |-> TRUE]

\* A run in which nothing is fetched through the pool.
ProxyIdle ==
    /\ counter = 0
    /\ unhealthy = {}
    /\ fetchLast = NoFetch

NoRobotsKey == [kind |-> "none", body |-> "", delay |-> 0]
NoDomainRow == [row |-> FALSE, robots |-> Null, delay |-> 0]
NoCheck == [url |-> Null, allowed |-> TRUE, delay |-> 0, err |-> FALSE, fail |-> "none",
            src |-> "none", body |-> "", cached |-> FALSE, next |-> "none"]

\* A run in which the robots checker is not called.
RobotsIdle ==
    /\ rcache = NoRobotsKey
    /\ rdom = NoDomainRow
    /\ rLast = NoCheck

NoReap == [seq |-> 0, count |-> 0, err |-> FALSE, reset |-> {},
           claim |-> [url |-> Null, status |-> NoRow]]

\* A run in which the reaper's result is not looked at.
ReaperIdle == reaped = NoReap

NoRun == [read |-> "off", reclaim |-> "off", nRead |-> 0, nReclaim |-> 0,
          tick |-> FALSE, wg |-> 0, closed |-> FALSE, closes |-> 0, late |-> FALSE,
          got |-> FALSE]

\* A run in which the consumer's goroutines are not followed one by one and
\* the return of Crawler.Run is not looked at.
RunIdle ==
    /\ crun = NoRun
    /\ runDone = FALSE

NoBatch == [in |-> <<>>, pre |-> 0, pos |-> 0, stream |-> <<>>, ret |-> "none",
            pipe |-> 0]

\* A run without a call of PublishURLBatch on its own.
BatchIdle == pb = NoBatch

NoInsert == [rows |-> {}, doms |-> {}, cache |-> {}, frontier |-> <<>>, faults |-> 0,
             pw |-> <<>>]

\* A run in which the parser's insert block is not followed call by call.
InsertIdle == pins = NoInsert

\* A run that uses none of the components modelled on their own further down.
RestIdle == RobotsIdle /\ ReaperIdle /\ RunIdle /\ BatchIdle /\ InsertIdle

InitAux == LimiterIdle /\ DnsIdle /\ ProxyIdle /\ RestIdle

\* ------------------------------------------------------ the urls table
NewRow(st) ==
    [status |-> st, retry |-> 0, html |-> Null, hash |-> Null, text |-> Null,
     stale |-> FALSE]

EmptyRow == NewRow(NoRow)

\* InsertURL: INSERT ... ON CONFLICT (url) DO NOTHING; status defaults to pending.
InsertURL(tbl, u) ==
    IF tbl[u].status = NoRow THEN [tbl EXCEPT ![u] = NewRow(StatusPending)] ELSE tbl

\* BulkInsertURLs: one InsertURL per element; the rows actually inserted.
Inserted(tbl, us) == {u \in us : tbl[u].status = NoRow}

BulkInsertURLs(tbl, us) ==
    [u \in URLs |-> IF u \in Inserted(tbl, us) THEN NewRow(StatusPending) ELSE tbl[u]]

\* A DO UPDATE that sets the status to crawling whatever it was.
ClaimStatusAlways(st) == StatusCrawling

\* UpsertURLReturning: the status the CASE expression of the DO UPDATE yields.
ClaimStatus(st) ==
    IF st \in {StatusPending, StatusFailed} THEN StatusCrawling ELSE st

UpsertURLReturning(tbl, u) ==
    IF tbl[u].status = NoRow
    THEN [tbl EXCEPT ![u] = NewRow(StatusCrawling)]
    ELSE [tbl EXCEPT ![u].status = ClaimStatus(@), ![u].stale = FALSE]

\* An UPDATE that matches no row.
UpdateURLStatusNoRow(tbl, u, st) == tbl

UpdateURLStatus(tbl, u, st) ==
    IF tbl[u].status = NoRow THEN tbl
    ELSE [tbl EXCEPT ![u].status = st, ![u].stale = FALSE]

\* UpdateURLCrawled that forgets the locator column.
UpdateURLCrawledNoLocator(tbl, u, l) ==
    IF tbl[u].status = NoRow THEN tbl
    ELSE [tbl EXCEPT ![u].status = StatusCrawled, ![u].stale = FALSE]

UpdateURLCrawled(tbl, u, l) ==
    IF tbl[u].status = NoRow THEN tbl
    ELSE [tbl EXCEPT ![u].status = StatusCrawled, ![u].html = l, ![u].stale = FALSE]

UpdateURLParsed(tbl, u, h, l) ==
    IF tbl[u].status = NoRow THEN tbl
    ELSE [tbl EXCEPT ![u].status = StatusParsed, ![u].hash = h, ![u].text = l,
                     ![u].stale = FALSE]

\* The comparison written > instead of >=.
FailStatusLate(st, count, max) == IF count > max THEN StatusFailed ELSE st

FailStatus(st, count, max) == IF count >= max THEN StatusFailed ELSE st

IncrementRetryAndMaybeFailURL(tbl, u, max) ==
    IF tbl[u].status = NoRow THEN tbl
    ELSE [tbl EXCEPT ![u].retry = @ + 1,
                     ![u].status = FailStatus(@, tbl[u].retry + 1, max),
                     ![u].stale = FALSE]

\* A reset that does not look at the update timestamp.
ResetAllCrawlingURLs(tbl) ==
    [u \in URLs |->
        IF tbl[u].status = StatusCrawling
        THEN [tbl[u] EXCEPT !.status = StatusPending, !.stale = FALSE]
        ELSE tbl[u]]

\* ResetStaleCrawlingURLs: the rows in crawling whose updated_at is older than
\* staleDuration become pending, with updated_at = NOW().
ResetStaleCrawlingURLs(tbl) ==
    [u \in URLs |->
        IF tbl[u].status = StatusCrawling /\ tbl[u].stale
        THEN [tbl[u] EXCEPT !.status = StatusPending, !.stale = FALSE]
        ELSE tbl[u]]

ContentHashExists(tbl, h) == \E u \in URLs : tbl[u].hash = h

\* ------------------------------------------------------------- backoff
RECURSIVE Pow2(_)
Pow2(n) == IF n <= 0 THEN 1 ELSE 2 * Pow2(n - 1)

\* backoffDuration without the jitter factor: jitter drawn from [0, base).
backoffDurationFullJitter(retryCount, j) ==
    LET base == Pow2(retryCount)
        whole == base + (j * base * 1000) \div (JitterSteps * 1000)
    IN  whole * MsPerSecond

\* rand.Float64() = j / JitterSteps.  time.Duration(base+jitter) truncates the
\* float to whole units before it is multiplied by time.Second.
backoffDuration(retryCount, j) ==
    LET base == Pow2(retryCount)
        whole == base + (j * base * BackoffJitterPermille) \div (JitterSteps * 1000)
    IN  whole * MsPerSecond

\* ------------------------------------------------------------ availability
\* A call to the store, the broker or the object store made with the process's
\* root context: it fails when the context is cancelled, and it may fail because
\* the service does not answer.
CtxCall(proc, ok) ==
    /\ ok => ~ctxDone[proc]
    /\ ~ok => (ctxDone[proc] \/ faults < MaxFaults)
    /\ faults' = IF ok \/ ctxDone[proc] THEN faults ELSE faults + 1

\* A call made with ctxBG() or another context derived from context.Background():
\* it fails only because the service does not answer.
BgCall(proc, ok) ==
    /\ ~ok => faults < MaxFaults
    /\ faults' = IF ok THEN faults ELSE faults + 1

\* ------------------------------------------------------------ initial state
IdleWorker ==
    [pc |-> "idle", d |-> 0, body |-> EmptyPayload, data |-> Null, retry |-> 0,
     inserted |-> {}, holds |-> FALSE, calls |-> 0, lastCall |-> "none",
     lastOk |-> FALSE, callCtx |-> FALSE, robots |-> "none"]

\* What the environment put on the streams before the workers start, the seed
\* file the seeder is about to read, and the workers each process runs.
Scenarios ==
    {[seeds |-> Seeds, frontier |-> <<>>, parse |-> <<>>, on |-> {"c1", "p1"}]}
    \cup {[seeds |-> {}, frontier |-> <<URLMsg("u1", 0)>>, parse |-> <<>>,
           on |-> {"c1", "c2"}]}
    \cup {[seeds |-> {}, frontier |-> <<p>>, parse |-> <<>>, on |-> {"c1"}] :
            p \in {BadPayload, EmptyPayload, URLMsg(InvalidURL, 0),
                   URLMsg("u1", MaxDepth + 1)}}
    \cup {[seeds |-> {}, frontier |-> <<>>, parse |-> <<p>>, on |-> {"p1"}] :
            p \in {BadPayload, EmptyPayload, ParseMsg("u1", BadLink, 0)}}
    \cup {[seeds |-> {}, frontier |-> <<BadPayload>>, parse |-> <<BadPayload>>,
           on |-> {"c1", "p1"}]}

InitCommon ==
    /\ urls = [u \in URLs |-> EmptyRow]
    /\ domainRows = {}
    /\ domainCache = [s \in Streams |-> {}]
    /\ htmlStore = [u \in URLs |-> Null]
    /\ textStore = {}
    /\ dlq = [s \in Streams |-> <<>>]
    /\ pel = [s \in Streams |-> {}]
    /\ lastId = [s \in Streams |-> 0]
    /\ readBatch = [s \in Streams |-> <<>>]
    /\ reclaimBatch = [s \in Streams |-> <<>>]
    /\ reclaims = [s \in Streams |-> 0]
    /\ running = [s \in Streams |-> TRUE]
    /\ retryTasks = <<>>
    /\ ctxDone = [s \in Streams |-> FALSE]
    /\ faults = 0
    /\ idle = [s \in Streams |-> {}]

InitScenario(sc) ==
    /\ seeds = sc.seeds
    /\ stream = [s \in Streams |-> IF s = "frontier" THEN sc.frontier ELSE sc.parse]
    /\ wk = [w \in Workers |->
                IF w \in sc.on THEN IdleWorker ELSE [IdleWorker EXCEPT !.pc = "off"]]

Init ==
    /\ InitCommon
    /\ \E sc \in Scenarios : InitScenario(sc)
    /\ arg = <<0, 0>>
    /\ out = -1
    /\ backlog = 0
    /\ InitAux

\* -------------------------------------------------------------- environment
\* seeder.Run for one line: UpsertDomain, InsertURL, and PublishURL when the row
\* is new.
SeedURL(u) ==
    /\ u \in seeds
    /\ seeds' = seeds \ {u}
    /\ domainRows' = domainRows \cup {Domain}
    /\ urls' = InsertURL(urls, u)
    /\ IF urls[u].status = NoRow
       THEN /\ Len(stream["frontier"]) < MaxStream
            /\ stream' = [stream EXCEPT !["frontier"] = Append(@, URLMsg(u, 0))]
       ELSE stream' = stream
    /\ UNCHANGED <<domainCache, blobVars, dlq, pel, lastId, readBatch, reclaimBatch,
                   reclaims, running, wk, retryTasks, ctxDone, faults, fnVars>>

\* SIGINT/SIGTERM: signal.NotifyContext cancels the root context of a process.
Cancel(proc) ==
    /\ ~ctxDone[proc]
    /\ ctxDone' = [ctxDone EXCEPT ![proc] = TRUE]
    /\ UNCHANGED <<dbVars, domainCache, blobVars, brokerVars, wk, retryTasks, seeds,
                   faults, fnVars>>

\* Five minutes pass in which no row is written.  The flag is kept for the rows
\* the reaper looks at, those in crawling.
RowsAge ==
    /\ \E u \in URLs : urls[u].status = StatusCrawling /\ ~urls[u].stale
    /\ urls' = [u \in URLs |->
                  IF urls[u].status = StatusCrawling THEN [urls[u] EXCEPT !.stale = TRUE]
                  ELSE urls[u]]
    /\ UNCHANGED <<domainRows, domainCache, blobVars, brokerVars, wk, retryTasks,
                   envVars, faults, fnVars>>

\* cmd/crawler run(): a crawler process starts and runs the stale-claim reaper.
Reaper ==
    /\ urls' = ResetStaleCrawlingURLs(urls)
    /\ urls' # urls
    /\ UNCHANGED <<domainRows, domainCache, blobVars, brokerVars, wk, retryTasks,
                   envVars, faults, fnVars>>

\* ----------------------------------------------------------------- consumer
\* readLoop: XREADGROUP ">" hands the consumer the entries after lastId and puts
\* them in the group's PEL.
ReadNew(s) ==
    /\ running[s] /\ ~ctxDone[s]
    /\ readBatch[s] = <<>>
    /\ lastId[s] < Len(stream[s])
    /\ LET ids == (lastId[s] + 1) .. Len(stream[s]) IN
          /\ readBatch' = [readBatch EXCEPT ![s] = [i \in 1 .. Cardinality(ids) |-> lastId[s] + i]]
          /\ pel' = [pel EXCEPT ![s] = @ \cup ids]
          /\ lastId' = [lastId EXCEPT ![s] = Len(stream[s])]
    /\ UNCHANGED <<dbVars, domainCache, blobVars, stream, dlq, reclaimBatch, reclaims,
                   running, wk, retryTasks, envVars, faults, fnVars>>

\* reclaimPending: XAUTOCLAIM returns the pending entries idle for more than
\* reclaimMinIdle; which entries those are depends on the time that has passed.
SortedSeq(S) ==
    [i \in 1 .. Cardinality(S) |->
        CHOOSE x \in S : Cardinality({y \in S : y < x}) = i - 1]

ReclaimPending(s) ==
    /\ running[s] /\ ~ctxDone[s]
    /\ reclaimBatch[s] = <<>>
    /\ reclaims[s] < MaxReclaims
    /\ \E ids \in SUBSET pel[s] :
          /\ ids # {}
          /\ reclaimBatch' = [reclaimBatch EXCEPT ![s] = SortedSeq(ids)]
    /\ reclaims' = [reclaims EXCEPT ![s] = @ + 1]
    /\ UNCHANGED <<dbVars, domainCache, blobVars, stream, dlq, pel, lastId, readBatch,
                   running, wk, retryTasks, envVars, faults, fnVars>>

\* reclaimMinIdle passes in which no pending entry of the group is delivered:
\* every entry now in the PEL has an idle time above the threshold.
EntriesIdle(s) ==
    /\ running[s]
    /\ pel[s] \ idle[s] # {}
    /\ idle' = [idle EXCEPT ![s] = @ \cup pel[s]]
    /\ UNCHANGED <<dbVars, domainCache, blobVars, brokerVars, wk, retryTasks, envVars,
                   faults, backoffVars, backlog, auxVars>>

\* An XAUTOCLAIM that returns nothing.
ReclaimableNone(idleIds, pending) == {}

\* What XAUTOCLAIM with MinIdle = reclaimMinIdle returns: the entries that are
\* pending in the group and idle for longer than reclaimMinIdle.
Reclaimable(idleIds, pending) == idleIds \cap pending

\* reclaimLoop: the ticker fires and reclaimPending runs XAUTOCLAIM from "0-0"
\* until the cursor wraps; the entries returned are sent in id order.  On error
\* reclaimPending returns and the next tick tries again.
ReclaimIdle(s) ==
    /\ running[s] /\ ~ctxDone[s]
    /\ reclaimBatch[s] = <<>>
    /\ Reclaimable(idle[s], pel[s]) # {}
    /\ \E ok \in BOOLEAN :
          /\ CtxCall(s, ok)
          /\ IF ok
             THEN /\ reclaimBatch' = [reclaimBatch EXCEPT ![s] =
                                        SortedSeq(Reclaimable(idle[s], pel[s]))]
                  /\ idle' = [idle EXCEPT ![s] = @ \ Reclaimable(idle[s], pel[s])]
             ELSE UNCHANGED <<reclaimBatch, idle>>
    /\ UNCHANGED <<dbVars, domainCache, blobVars, stream, dlq, pel, lastId, readBatch,
                   reclaims, running, wk, retryTasks, envVars, backoffVars, backlog,
                   auxVars>>

\* XACK of entry id in the group of stream s.
XAck(p, s, id) == [p EXCEPT ![s] = @ \ {id}]

\* A buildDelivery that accepts every entry.
PoisonNever(payload) == FALSE

\* buildDelivery on an entry without a usable payload: XACK with ctxBG(), drop.
Poison(payload) == payload.kind = "empty"

DropFrom(batch, s) ==
    /\ batch[s] # <<>>
    /\ Poison(stream[s][Head(batch[s])])
    /\ \E ok \in BOOLEAN :
          /\ BgCall(s, ok)
          /\ pel' = IF ok THEN XAck(pel, s, Head(batch[s])) ELSE pel

DropPoison(s) ==
    /\ running[s]
    /\ \/ /\ DropFrom(readBatch, s)
          /\ readBatch' = [readBatch EXCEPT ![s] = Tail(@)]
          /\ UNCHANGED reclaimBatch
       \/ /\ DropFrom(reclaimBatch, s)
          /\ reclaimBatch' = [reclaimBatch EXCEPT ![s] = Tail(@)]
          /\ UNCHANGED readBatch
    /\ UNCHANGED <<dbVars, domainCache, blobVars, stream, dlq, lastId, reclaims,
                   running, wk, retryTasks, envVars, fnVars>>

\* Both loops see ctx.Done() and return; Run's third goroutine closes the channel.
ConsumerStop(s) ==
    /\ running[s] /\ ctxDone[s]
    /\ running' = [running EXCEPT ![s] = FALSE]
    /\ readBatch' = [readBatch EXCEPT ![s] = <<>>]
    /\ reclaimBatch' = [reclaimBatch EXCEPT ![s] = <<>>]
    /\ UNCHANGED <<dbVars, domainCache, blobVars, stream, dlq, pel, lastId, reclaims,
                   wk, retryTasks, envVars, faults, fnVars>>

\* ------------------------------------------------------------------ workers
\* The decode steps without the depth check.
CrawlerAfterDecodeNoDepth(body) ==
    IF body.kind # "url" THEN "nackDLQ"
    ELSE IF body.url = InvalidURL THEN "ack"
    ELSE "domain"

\* Crawler.processMessage up to the first call that leaves the process:
\* json.Unmarshal, the depth check and url.Parse.
CrawlerAfterDecode(body) ==
    IF body.kind # "url" THEN "nackDLQ"
    ELSE IF body.depth > MaxDepth THEN "ack"
    ELSE IF body.url = InvalidURL THEN "ack"
    ELSE "domain"

\* Parser.processMessage up to GetObject: json.Unmarshal and the SplitN check.
ParserAfterDecode(body) ==
    IF body.kind # "parse" THEN "nackDLQ"
    ELSE IF body.link = BadLink THEN "nackDLQ"
    ELSE "get"

\* Workers that acknowledge a payload they cannot decode.
AfterDecodeAckBad(w, body) ==
    IF body.kind = "bad" THEN "ack"
    ELSE IF w \in CW THEN CrawlerAfterDecode(body) ELSE ParserAfterDecode(body)

AfterDecode(w, body) ==
    IF w \in CW THEN CrawlerAfterDecode(body) ELSE ParserAfterDecode(body)

\* worker(): the select on ctx.Done() and the delivery channel.  A delivery is
\* taken from whichever loop is blocked in its send.
Receive(w) ==
    /\ wk[w].pc = "idle"
    /\ running[StreamOf(w)]
    /\ LET s == StreamOf(w) IN
       \E fromRead \in BOOLEAN :
          LET batch == IF fromRead THEN readBatch ELSE reclaimBatch IN
          /\ batch[s] # <<>>
          /\ ~Poison(stream[s][Head(batch[s])])
          /\ wk' = [wk EXCEPT ![w] =
                      [IdleWorker EXCEPT !.pc = AfterDecode(w, stream[s][Head(batch[s])]),
                                         !.d = Head(batch[s]),
                                         !.body = stream[s][Head(batch[s])]]]
          /\ IF fromRead
             THEN /\ readBatch' = [readBatch EXCEPT ![s] = Tail(@)]
                  /\ UNCHANGED reclaimBatch
             ELSE /\ reclaimBatch' = [reclaimBatch EXCEPT ![s] = Tail(@)]
                  /\ UNCHANGED readBatch
    /\ UNCHANGED <<dbVars, domainCache, blobVars, stream, dlq, pel, lastId, reclaims,
                   running, retryTasks, envVars, faults, fnVars>>

\* worker() returns: ctx.Done() was selected, or the channel is closed.
WorkerStop(w) ==
    /\ wk[w].pc = "idle"
    /\ ctxDone[StreamOf(w)] \/ ~running[StreamOf(w)]
    /\ wk' = [wk EXCEPT ![w].pc = "stopped"]
    /\ UNCHANGED <<dbVars, domainCache, blobVars, brokerVars, retryTasks, envVars,
                   faults, fnVars>>

\* Ack made with the consumer's root context instead of ctxBG().
AckCallRootCtx(proc, ok) == CtxCall(proc, ok)

\* ---- the delivery handles built by buildDelivery
\* Delivery.Ack: XACK with ctxBG().
AckCall(proc, ok) == BgCall(proc, ok)

\* The crawler's retry branch: Ack, then one goroutine that waits
\* backoffDuration(retryCount) and re-publishes the message.
RetryTask(body, retryCount, j) ==
    [url |-> body.url, depth |-> body.depth, retry |-> retryCount,
     delay |-> backoffDuration(retryCount, j), state |-> "waiting"]

DeliveryAck(w) ==
    /\ wk[w].pc \in {"ack", "ackRetry"}
    /\ LET s == StreamOf(w) IN
       \E ok \in BOOLEAN :
          /\ AckCall(s, ok)
          /\ pel' = IF ok THEN XAck(pel, s, wk[w].d) ELSE pel
          /\ wk' = [wk EXCEPT ![w].pc = "idle", ![w].calls = @ + 1,
                              ![w].lastCall = "ack", ![w].lastOk = ok,
                              ![w].callCtx = ctxDone[s], ![w].holds = FALSE]
    /\ IF wk[w].pc = "ackRetry"
       THEN /\ Len(retryTasks) < MaxTasks
            /\ \E j \in 0 .. JitterSteps - 1 :
                  retryTasks' = Append(retryTasks, RetryTask(wk[w].body, wk[w].retry, j))
       ELSE UNCHANGED retryTasks
    /\ UNCHANGED <<dbVars, domainCache, blobVars, stream, dlq, lastId, readBatch,
                   reclaimBatch, reclaims, running, envVars, fnVars>>

\* Delivery.Nack(true), first call: XADD of the payload to the DLQ with ctxBG();
\* on error Nack returns it without acking.
DlqAddCall(proc, ok) == BgCall(proc, ok)

\* A DLQ append that sends an empty payload field.
DlqEntryBlank(body) == EmptyPayload

DlqEntry(body) == body

\* A Nack(true) that acks the entry although the XADD failed.
NackAddFailedAcked(p, s, id) == XAck(p, s, id)

\* Nack(true) after a failed XADD: "return err", no XACK is sent.
NackAddFailed(p, s, id) == p

NackDLQAdd(w) ==
    /\ wk[w].pc = "nackDLQ"
    /\ LET s == StreamOf(w) IN
       \E ok \in BOOLEAN :
          /\ DlqAddCall(s, ok)
          /\ IF ok
             THEN /\ dlq' = [dlq EXCEPT ![s] = Append(@, DlqEntry(wk[w].body))]
                  /\ wk' = [wk EXCEPT ![w].pc = "nackDLQAck", ![w].callCtx = ctxDone[s]]
             ELSE /\ dlq' = dlq
                  /\ wk' = [wk EXCEPT ![w].pc = "idle", ![w].calls = @ + 1,
                                      ![w].lastCall = "dlq", ![w].lastOk = FALSE,
                                      ![w].callCtx = ctxDone[s], ![w].holds = FALSE]
          /\ pel' = IF ok THEN pel ELSE NackAddFailed(pel, s, wk[w].d)
    /\ UNCHANGED <<dbVars, domainCache, blobVars, stream, lastId, readBatch,
                   reclaimBatch, reclaims, running, retryTasks, envVars, fnVars>>

\* Delivery.Nack(true), second call: XACK with a fresh ctxBG().
NackDLQAck(w) ==
    /\ wk[w].pc = "nackDLQAck"
    /\ LET s == StreamOf(w) IN
       \E ok \in BOOLEAN :
          /\ AckCall(s, ok)
          /\ pel' = IF ok THEN XAck(pel, s, wk[w].d) ELSE pel
          /\ wk' = [wk EXCEPT ![w].pc = "idle", ![w].calls = @ + 1,
                              ![w].lastCall = "dlq", ![w].lastOk = ok,
                              ![w].callCtx = ctxDone[s], ![w].holds = FALSE]
    /\ UNCHANGED <<dbVars, domainCache, blobVars, stream, dlq, lastId, readBatch,
                   reclaimBatch, reclaims, running, retryTasks, envVars, fnVars>>

\* Delivery.Nack(false): returns nil without a call to the broker.
\* A Nack(false) that acks the entry.
RequeuePelAcked(p, s, id) == XAck(p, s, id)

RequeuePel(p, s, id) == p

NackRequeue(w) ==
    /\ wk[w].pc = "nackRequeue"
    /\ pel' = RequeuePel(pel, StreamOf(w), wk[w].d)
    /\ wk' = [wk EXCEPT ![w].pc = "idle", ![w].calls = @ + 1,
                        ![w].lastCall = "requeue", ![w].lastOk = TRUE,
                        ![w].callCtx = ctxDone[StreamOf(w)], ![w].holds = FALSE]
    /\ UNCHANGED <<dbVars, domainCache, blobVars, stream, dlq, lastId, readBatch,
                   reclaimBatch, reclaims, running, retryTasks, envVars, faults, fnVars>>

\* ----------------------------------------------------------- crawler worker
\* domainCache.LoadOrStore(domain, true): the entry is stored before the upsert
\* is made; a worker that finds it goes on to the claim at once.
CrawlerDomain(w) ==
    /\ w \in CW /\ wk[w].pc = "domain"
    /\ IF Domain \in domainCache["frontier"]
       THEN /\ wk' = [wk EXCEPT ![w].pc = "claim"]
            /\ UNCHANGED domainCache
       ELSE /\ domainCache' = [domainCache EXCEPT !["frontier"] = @ \cup {Domain}]
            /\ wk' = [wk EXCEPT ![w].pc = "upsert"]
    /\ UNCHANGED <<dbVars, blobVars, brokerVars, retryTasks, envVars, faults, fnVars>>

\* A failed upsert that leaves the entry in the sync.Map.
UpsertFailedKeep(cache, proc, dom) == cache

\* domainCache.Delete(domain) after a failed UpsertDomain.
UpsertFailed(cache, proc, dom) == [cache EXCEPT ![proc] = @ \ {dom}]

\* models.UpsertDomain by the worker that stored the entry; on error the entry
\* is deleted again and the delivery is requeued.
CrawlerUpsertDomain(w) ==
    /\ w \in CW /\ wk[w].pc = "upsert"
    /\ \E ok \in BOOLEAN :
          /\ CtxCall("frontier", ok)
          /\ IF ok
             THEN /\ domainRows' = domainRows \cup {Domain}
                  /\ wk' = [wk EXCEPT ![w].pc = "claim"]
                  /\ UNCHANGED domainCache
             ELSE /\ domainCache' = UpsertFailed(domainCache, "frontier", Domain)
                  /\ wk' = [wk EXCEPT ![w].pc = "nackRequeue"]
                  /\ UNCHANGED domainRows
    /\ UNCHANGED <<urls, blobVars, brokerVars, retryTasks, envVars, fnVars>>

\* urls.domain REFERENCES domains(domain): the INSERT of a row whose domain has
\* no row is rejected; the DO UPDATE of an existing row is not.
ForeignKeyViolation(tbl, doms, u) == tbl[u].status = NoRow /\ Domain \notin doms

\* The branch on the status UpsertURLReturning returned.
\* The not-crawlable branch returning without its Ack.
AfterClaimNoAck(status) == IF status # StatusCrawling THEN "idle" ELSE "robots"

AfterClaim(status) == IF status # StatusCrawling THEN "ack" ELSE "robots"

CrawlerClaim(w) ==
    /\ w \in CW /\ wk[w].pc = "claim"
    /\ \E ok \in BOOLEAN :
          /\ CtxCall("frontier", ok)
          /\ IF ok /\ ~ForeignKeyViolation(urls, domainRows, wk[w].body.url)
             THEN /\ urls' = UpsertURLReturning(urls, wk[w].body.url)
                  /\ wk' = [wk EXCEPT
                              ![w].pc = AfterClaim(urls'[wk[w].body.url].status),
                              ![w].holds = (urls'[wk[w].body.url].status = StatusCrawling)]
             ELSE /\ urls' = urls
                  /\ wk' = [wk EXCEPT ![w].pc = "nackRequeue"]
    /\ UNCHANGED <<domainRows, domainCache, blobVars, brokerVars, retryTasks, envVars,
                   fnVars>>

\* --- robots.txt
\* The request path of a URL (parsed.RequestURI()), as its segments.
Path == [u \in URLs |-> IF u = "u1" THEN <<"pub">> ELSE <<"admin", "x">>]

\* robots.txt bodies a domain may serve.
RobotsBodies ==
    {"",
     "User-agent: *\nDisallow: /admin\n",
     "User-agent: *\nCrawl-delay: 5\n\nUser-agent: NimbusCrawler\nDisallow: /\nCrawl-delay: 2\n",
     "User-agent: *\nDisallow: /\n\nUser-agent: NimbusCrawler\nCrawl-delay: 0.01\n",
     "User-agent: *\nCrawl-delay: 0.0001\n",
     "User-agent: Other\nDisallow: /\nCrawl-delay: 3\n"}

\* A body robotstxt.FromString rejects.
BadRobots == "<unparseable>"

NoGroup == [present |-> FALSE, disallow |-> {}, delayUs |-> 0]
Group(disallow, delayUs) == [present |-> TRUE, disallow |-> disallow, delayUs |-> delayUs]

\* robotstxt.FromString: the groups of a body by user-agent token (lower case),
\* each with its Disallow prefixes and its Crawl-delay in microseconds.
FromString(body) ==
    [agent \in {"*", "nimbuscrawler", "other"} |->
        CASE body = "User-agent: *\nDisallow: /admin\n" ->
                 IF agent = "*" THEN Group({<<"admin">>}, 0) ELSE NoGroup
          [] body = "User-agent: *\nCrawl-delay: 5\n\nUser-agent: NimbusCrawler\nDisallow: /\nCrawl-delay: 2\n" ->
                 IF agent = "*" THEN Group({}, 5000000)
                 ELSE IF agent = "nimbuscrawler" THEN Group({<<>>}, 2000000)
                 ELSE NoGroup
          [] body = "User-agent: *\nDisallow: /\n\nUser-agent: NimbusCrawler\nCrawl-delay: 0.01\n" ->
                 IF agent = "*" THEN Group({<<>>}, 0)
                 ELSE IF agent = "nimbuscrawler" THEN Group({}, 10000)
                 ELSE NoGroup
          [] body = "User-agent: *\nCrawl-delay: 0.0001\n" ->
                 IF agent = "*" THEN Group({}, 100) ELSE NoGroup
          [] body = "User-agent: Other\nDisallow: /\nCrawl-delay: 3\n" ->
                 IF agent = "other" THEN Group({<<>>}, 3000000) ELSE NoGroup
          [] OTHER -> NoGroup]

\* RobotsData.FindGroup(CrawlerName): the group of the crawler's token when the
\* body has one, else the group of "*", else the empty group.
FindGroup(groups) ==
    IF groups["nimbuscrawler"].present THEN groups["nimbuscrawler"]
    ELSE IF groups["*"].present THEN groups["*"]
    ELSE NoGroup

IsPrefix(p, q) == Len(p) <= Len(q) /\ SubSeq(q, 1, Len(p)) = p

\* Group.Test(path): no Disallow prefix matches the path.
Test(group, path) == \A p \in group.disallow : ~IsPrefix(p, path)

\* Checker.IsAllowed after getRobotsText returned body without an error.
RobotsVerdict(body, u) ==
    IF body = "" THEN TRUE
    ELSE IF body = BadRobots THEN TRUE
    ELSE Test(FindGroup(FromString(body)), Path[u])

\* robotsCheck.IsAllowed with robots enforcement on: fail-open when
\* getRobotsText fails, else the verdict on the body it returned.  On disallow
\* UpdateURLStatus(skipped), whose error is discarded, then Ack.
CrawlerRobots(w) ==
    /\ w \in CW /\ wk[w].pc = "robots"
    /\ \E getErr \in BOOLEAN, body \in RobotsBodies \cup {BadRobots} :
          IF getErr \/ RobotsVerdict(body, wk[w].body.url)
          THEN /\ wk' = [wk EXCEPT ![w].pc = "limit", ![w].robots = "allowed"]
               /\ UNCHANGED <<urls, faults>>
          ELSE \E ok \in BOOLEAN :
                  /\ CtxCall("frontier", ok)
                  /\ wk' = [wk EXCEPT ![w].pc = "ack", ![w].robots = "disallowed"]
                  /\ urls' = IF ok
                             THEN UpdateURLStatus(urls, wk[w].body.url, StatusSkipped)
                             ELSE urls
    /\ UNCHANGED <<domainRows, domainCache, blobVars, brokerVars, retryTasks, envVars,
                   fnVars>>

\* rateLimiter.WaitForAllow: returns nil once allowed, an error when the cache
\* broker fails or the context is cancelled.
CrawlerLimit(w) ==
    /\ w \in CW /\ wk[w].pc = "limit"
    /\ \E ok \in BOOLEAN :
          /\ CtxCall("frontier", ok)
          /\ wk' = [wk EXCEPT ![w].pc = IF ok THEN "fetch" ELSE "nackRequeue"]
    /\ UNCHANGED <<dbVars, domainCache, blobVars, brokerVars, retryTasks, envVars, fnVars>>

\* fetcher.Fetch: a body with status 200, or an error / another status.
CrawlerFetch(w) ==
    /\ w \in CW /\ wk[w].pc = "fetch"
    /\ \E ok \in BOOLEAN :
          /\ ok => ~ctxDone["frontier"]
          /\ wk' = IF ok
                   THEN [wk EXCEPT ![w].pc = "store", ![w].data = PageBody[wk[w].body.url]]
                   ELSE [wk EXCEPT ![w].pc = "incr"]
    /\ UNCHANGED <<dbVars, domainCache, blobVars, brokerVars, retryTasks, envVars,
                   faults, fnVars>>

\* retryCount, _ := IncrementRetryAndMaybeFailURL(...): the error is discarded,
\* and on error the count scanned is 0.  Then the branch on retryCount.
AfterIncrement(retryCount) ==
    IF retryCount >= MaxRetries THEN "nackDLQ" ELSE "ackRetry"

CrawlerIncrement(w) ==
    /\ w \in CW /\ wk[w].pc = "incr"
    /\ \E ok \in BOOLEAN :
          /\ CtxCall("frontier", ok)
          /\ IF ok
             THEN /\ urls' = IncrementRetryAndMaybeFailURL(urls, wk[w].body.url, MaxRetries)
                  /\ wk' = [wk EXCEPT
                              ![w].retry = urls'[wk[w].body.url].retry,
                              ![w].pc = AfterIncrement(urls'[wk[w].body.url].retry)]
             ELSE /\ urls' = urls
                  /\ wk' = [wk EXCEPT ![w].retry = 0, ![w].pc = AfterIncrement(0)]
    /\ UNCHANGED <<domainRows, domainCache, blobVars, brokerVars, retryTasks, envVars,
                   fnVars>>

\* A crawler that publishes the ParseMessage right after the blob is stored.
AfterStorePublishFirst(ok) == IF ok THEN "publish" ELSE "nackRequeue"

\* After PutObject: Nack(false) on error, else UpdateURLCrawled comes next.
AfterStore(ok) == IF ok THEN "update" ELSE "nackRequeue"

\* minio.PutObject of the body under HTMLKey(url).
CrawlerStore(w) ==
    /\ w \in CW /\ wk[w].pc = "store"
    /\ \E ok \in BOOLEAN :
          /\ CtxCall("frontier", ok)
          /\ IF ok
             THEN htmlStore' = [htmlStore EXCEPT ![wk[w].body.url] = wk[w].data]
             ELSE htmlStore' = htmlStore
          /\ wk' = [wk EXCEPT ![w].pc = AfterStore(ok)]
    /\ UNCHANGED <<dbVars, domainCache, textStore, brokerVars, retryTasks, envVars, fnVars>>

\* models.UpdateURLCrawled(urlID, s3Link).
CrawlerUpdate(w) ==
    /\ w \in CW /\ wk[w].pc = "update"
    /\ \E ok \in BOOLEAN :
          /\ CtxCall("frontier", ok)
          /\ IF ok
             THEN /\ urls' = UpdateURLCrawled(urls, wk[w].body.url, Link(wk[w].body.url))
                  /\ wk' = [wk EXCEPT ![w].pc = "publish"]
             ELSE /\ urls' = urls
                  /\ wk' = [wk EXCEPT ![w].pc = "nackRequeue"]
    /\ UNCHANGED <<domainRows, domainCache, blobVars, brokerVars, retryTasks, envVars,
                   fnVars>>

\* publisher.PublishParse(ctx, parseMsg).
CrawlerPublish(w) ==
    /\ w \in CW /\ wk[w].pc = "publish"
    /\ \E ok \in BOOLEAN :
          /\ CtxCall("frontier", ok)
          /\ IF ok
             THEN /\ Len(stream["parse"]) < MaxStream
                  /\ stream' = [stream EXCEPT !["parse"] =
                                  Append(@, ParseMsg(wk[w].body.url, Link(wk[w].body.url),
                                                     wk[w].body.depth))]
                  /\ wk' = [wk EXCEPT ![w].pc = "ack"]
             ELSE /\ stream' = stream
                  /\ wk' = [wk EXCEPT ![w].pc = "nackRequeue"]
    /\ UNCHANGED <<dbVars, domainCache, blobVars, dlq, pel, lastId, readBatch,
                   reclaimBatch, reclaims, running, retryTasks, envVars, fnVars>>

\* The retry goroutine blocked in its select: time.After(delay) fires first and
\* the timer's case is taken.  Once ctx.Done() is closed the goroutine is woken
\* with that case, whatever the timer does afterwards.
RetryTimer(i) ==
    /\ i \in 1 .. Len(retryTasks)
    /\ retryTasks[i].state = "waiting"
    /\ ~ctxDone["frontier"]
    /\ retryTasks' = [retryTasks EXCEPT ![i].state = "due"]
    /\ UNCHANGED <<dbVars, domainCache, blobVars, brokerVars, wk, envVars, faults, fnVars>>

\* A goroutine that publishes a second copy when the first call succeeded.
RepublishTwice(q, m) == Append(Append(q, m), m)

\* The one call of PublishURL(pubCtx, msg): XADD of the message to Frontier.
Republish(q, m) == Append(q, m)

\* The retry goroutine after the timer's case: PublishURL runs with a fresh
\* background context; its error is logged.
RetryPublish(i) ==
    /\ i \in 1 .. Len(retryTasks)
    /\ retryTasks[i].state = "due"
    /\ \E ok \in BOOLEAN :
          /\ BgCall("frontier", ok)
          /\ IF ok
             THEN /\ Len(stream["frontier"]) < MaxStream
                  /\ stream' = [stream EXCEPT !["frontier"] =
                                  Republish(@, URLMsg(retryTasks[i].url, retryTasks[i].depth))]
                  /\ retryTasks' = [retryTasks EXCEPT ![i].state = "published"]
             ELSE /\ stream' = stream
                  /\ retryTasks' = [retryTasks EXCEPT ![i].state = "failed"]
    /\ UNCHANGED <<dbVars, domainCache, blobVars, dlq, pel, lastId, readBatch,
                   reclaimBatch, reclaims, running, wk, envVars, fnVars>>

\* The retry goroutine: ctx.Done() is selected and the task returns.
RetryAbort(i) ==
    /\ i \in 1 .. Len(retryTasks)
    /\ retryTasks[i].state = "waiting"
    /\ ctxDone["frontier"]
    /\ retryTasks' = [retryTasks EXCEPT ![i].state = "aborted"]
    /\ UNCHANGED <<dbVars, domainCache, blobVars, brokerVars, wk, envVars, faults, fnVars>>

\* ------------------------------------------------------------ parser worker
\* minio.GetObject(bucket, key) of the locator in the message.
ParserGet(w) ==
    /\ w \in PW /\ wk[w].pc = "get"
    /\ \E ok \in BOOLEAN :
          /\ CtxCall("parse", ok)
          /\ wk' = IF ok /\ htmlStore[wk[w].body.url] # Null
                   THEN [wk EXCEPT ![w].pc = "dedup", ![w].data = htmlStore[wk[w].body.url]]
                   ELSE [wk EXCEPT ![w].pc = "nackRequeue"]
    /\ UNCHANGED <<dbVars, domainCache, blobVars, brokerVars, retryTasks, envVars, fnVars>>

\* hash := ContentHash(htmlData); models.ContentHashExists(hash).
ParserDedup(w) ==
    /\ w \in PW /\ wk[w].pc = "dedup"
    /\ \E ok \in BOOLEAN :
          /\ CtxCall("parse", ok)
          /\ wk' = IF ~ok THEN [wk EXCEPT ![w].pc = "nackRequeue"]
                   ELSE IF ContentHashExists(urls, ContentHash(wk[w].data))
                   THEN [wk EXCEPT ![w].pc = "skip"]
                   ELSE [wk EXCEPT ![w].pc = "text"]
    /\ UNCHANGED <<dbVars, domainCache, blobVars, brokerVars, retryTasks, envVars, fnVars>>

\* Duplicate content: UpdateURLStatus(skipped), whose error is discarded; Ack.
ParserSkip(w) ==
    /\ w \in PW /\ wk[w].pc = "skip"
    /\ \E ok \in BOOLEAN :
          /\ CtxCall("parse", ok)
          /\ urls' = IF ok
                     THEN UpdateURLStatus(urls, wk[w].body.url, StatusSkipped)
                     ELSE urls
    /\ wk' = [wk EXCEPT ![w].pc = "ack"]
    /\ UNCHANGED <<domainRows, domainCache, blobVars, brokerVars, retryTasks, envVars,
                   fnVars>>

\* ExtractURLs, ExtractText, minio.PutObject of the text under TextKey(url).
ParserText(w) ==
    /\ w \in PW /\ wk[w].pc = "text"
    /\ \E ok \in BOOLEAN :
          /\ CtxCall("parse", ok)
          /\ IF ok
             THEN /\ textStore' = textStore \cup {wk[w].body.url}
                  /\ wk' = [wk EXCEPT ![w].pc = "streamlen"]
             ELSE /\ textStore' = textStore
                  /\ wk' = [wk EXCEPT ![w].pc = "nackRequeue"]
    /\ UNCHANGED <<dbVars, domainCache, htmlStore, brokerVars, retryTasks, envVars, fnVars>>

\* publisher.StreamLen(FrontierStream): XLEN counts every entry on the stream.
FrontierLen == backlog + Len(stream["frontier"])

\* A parser that never sees backpressure.
UnderBackpressureNever(streamLen) == FALSE

\* streamLen > backpressureThreshold
UnderBackpressure(streamLen) == streamLen > BackpressureThreshold

\* The backpressure check: when StreamLen answers and the length is above the
\* threshold the insert-and-publish block is skipped; an error of StreamLen is
\* ignored.
ParserStreamLen(w) ==
    /\ w \in PW /\ wk[w].pc = "streamlen"
    /\ \E ok \in BOOLEAN :
          /\ CtxCall("parse", ok)
          /\ wk' = [wk EXCEPT ![w].pc =
                      IF ok /\ UnderBackpressure(FrontierLen) THEN "parsed" ELSE "insert"]
    /\ UNCHANGED <<dbVars, domainCache, blobVars, brokerVars, retryTasks, envVars, fnVars>>

\* The discovered URLs the parser goes on to insert: none when the page has no
\* link or depth+1 exceeds cfg.MaxDepth.
Discovered(body) ==
    IF body.depth + 1 <= MaxDepth THEN Links[body.url] ELSE {}

\* The insert block is entered when the page has links and depth+1 is within
\* cfg.MaxDepth; domainCache.LoadOrStore for the domain of the links.
ParserDomains(w) ==
    /\ w \in PW /\ wk[w].pc = "insert"
    /\ IF Discovered(wk[w].body) = {}
       THEN /\ wk' = [wk EXCEPT ![w].pc = "parsed"]
            /\ UNCHANGED domainCache
       ELSE IF Domain \in domainCache["parse"]
       THEN /\ wk' = [wk EXCEPT ![w].pc = "bulk"]
            /\ UNCHANGED domainCache
       ELSE /\ domainCache' = [domainCache EXCEPT !["parse"] = @ \cup {Domain}]
            /\ wk' = [wk EXCEPT ![w].pc = "upsertDom"]
    /\ UNCHANGED <<dbVars, blobVars, brokerVars, retryTasks, envVars, faults, fnVars>>

\* models.UpsertDomain for the unseen domain; on error the entry is deleted and
\* the worker goes on to the bulk insert all the same.
ParserUpsertDomain(w) ==
    /\ w \in PW /\ wk[w].pc = "upsertDom"
    /\ \E ok \in BOOLEAN :
          /\ CtxCall("parse", ok)
          /\ IF ok
             THEN /\ domainRows' = domainRows \cup {Domain}
                  /\ UNCHANGED domainCache
             ELSE /\ domainCache' = UpsertFailed(domainCache, "parse", Domain)
                  /\ UNCHANGED domainRows
    /\ wk' = [wk EXCEPT ![w].pc = "bulk"]
    /\ UNCHANGED <<urls, blobVars, brokerVars, retryTasks, envVars, fnVars>>

\* models.BulkInsertURLs at depth+1 for the one link of the page.  The batch is
\* one implicit transaction: when the statement is rejected (no domain row)
\* nothing is inserted; when the call fails on the connection the client has
\* read no row, and the transaction was committed or not.
ParserInsert(w) ==
    /\ w \in PW /\ wk[w].pc = "bulk"
    /\ \E ok, commit \in BOOLEAN :
          LET new == Discovered(wk[w].body)
              fk == \E u \in new : ForeignKeyViolation(urls, domainRows, u)
          IN  /\ CtxCall("parse", ok)
              /\ (ok \/ fk) => commit = (ok /\ ~fk)
              /\ urls' = IF commit THEN BulkInsertURLs(urls, new) ELSE urls
              /\ wk' = [wk EXCEPT
                          ![w].pc = "pubbatch",
                          ![w].inserted = IF ok /\ ~fk THEN Inserted(urls, new) ELSE {}]
    /\ UNCHANGED <<domainRows, domainCache, blobVars, brokerVars, retryTasks, envVars,
                   fnVars>>

\* publisher.PublishURLBatch of the newly inserted URLs; an error is logged.
RECURSIVE AppendAll(_, _, _)
AppendAll(q, us, k) ==
    IF us = {} THEN q
    ELSE LET u == CHOOSE x \in us : TRUE
         IN  AppendAll(Append(q, URLMsg(u, k)), us \ {u}, k)

ParserPublishBatch(w) ==
    /\ w \in PW /\ wk[w].pc = "pubbatch"
    /\ IF wk[w].inserted = {}
       THEN UNCHANGED <<stream, faults>>
       ELSE \E ok \in BOOLEAN :
               /\ CtxCall("parse", ok)
               /\ IF ok
                  THEN /\ Len(stream["frontier"]) + Cardinality(wk[w].inserted) <= MaxStream
                       /\ stream' = [stream EXCEPT !["frontier"] =
                                       AppendAll(@, wk[w].inserted, wk[w].body.depth + 1)]
                  ELSE stream' = stream
    /\ wk' = [wk EXCEPT ![w].pc = "parsed"]
    /\ UNCHANGED <<dbVars, domainCache, blobVars, dlq, pel, lastId, readBatch,
                   reclaimBatch, reclaims, running, retryTasks, envVars, fnVars>>

\* models.UpdateURLParsed(urlID, hash, s3TextLink).
ParserUpdate(w) ==
    /\ w \in PW /\ wk[w].pc = "parsed"
    /\ \E ok \in BOOLEAN :
          /\ CtxCall("parse", ok)
          /\ IF ok
             THEN /\ urls' = UpdateURLParsed(urls, wk[w].body.url, ContentHash(wk[w].data),
                                             TextLink(wk[w].body.url))
                  /\ wk' = [wk EXCEPT ![w].pc = "ack"]
             ELSE /\ urls' = urls
                  /\ wk' = [wk EXCEPT ![w].pc = "nackRequeue"]
    /\ UNCHANGED <<domainRows, domainCache, blobVars, brokerVars, retryTasks, envVars,
                   fnVars>>

\* ------------------------------------------------------------ specification
Next ==
    \/ \E u \in URLs : SeedURL(u)
    \/ RowsAge
    \/ Reaper
    \/ \E s \in Streams : ReadNew(s)
    \/ \E s \in Streams : ReclaimPending(s)
    \/ \E s \in Streams : DropPoison(s)
    \/ \E w \in Workers : Receive(w)
    \/ \E w \in Workers : DeliveryAck(w)
    \/ \E w \in Workers : NackDLQAdd(w)
    \/ \E w \in Workers : NackDLQAck(w)
    \/ \E w \in Workers : NackRequeue(w)
    \/ \E w \in CW : CrawlerDomain(w)
    \/ \E w \in CW : CrawlerUpsertDomain(w)
    \/ \E w \in CW : CrawlerClaim(w)
    \/ \E w \in CW : CrawlerRobots(w)
    \/ \E w \in CW : CrawlerLimit(w)
    \/ \E w \in CW : CrawlerFetch(w)
    \/ \E w \in CW : CrawlerIncrement(w)
    \/ \E w \in CW : CrawlerStore(w)
    \/ \E w \in CW : CrawlerUpdate(w)
    \/ \E w \in CW : CrawlerPublish(w)
    \/ \E i \in 1 .. MaxTasks : RetryTimer(i)
    \/ \E i \in 1 .. MaxTasks : RetryPublish(i)
    \/ \E w \in PW : ParserGet(w)
    \/ \E w \in PW : ParserDedup(w)
    \/ \E w \in PW : ParserSkip(w)
    \/ \E w \in PW : ParserText(w)
    \/ \E w \in PW : ParserStreamLen(w)
    \/ \E w \in PW : ParserDomains(w)
    \/ \E w \in PW : ParserUpsertDomain(w)
    \/ \E w \in PW : ParserInsert(w)
    \/ \E w \in PW : ParserPublishBatch(w)
    \/ \E w \in PW : ParserUpdate(w)

Spec == Init /\ [][Next]_vars


\* ------------------------------------------------- specification: shutdown
\* One crawler process with both workers, the signal handler and the consumer's
\* shutdown path.
ShutdownScenarios ==
    {[seeds |-> {}, frontier |-> <<BadPayload, URLMsg("u1", 0)>>, parse |-> <<>>,
      on |-> {"c1", "c2"}],
     [seeds |-> {}, frontier |-> <<EmptyPayload>>, parse |-> <<>>, on |-> {"c1"}]}

InitShutdown ==
    /\ InitCommon
    /\ \E sc \in ShutdownScenarios : InitScenario(sc)
    /\ arg = <<0, 0>>
    /\ out = -1
    /\ backlog = 0
    /\ InitAux

NextShutdown ==
    \/ Cancel("frontier")
    \/ ConsumerStop("frontier")
    \/ \E w \in CW : WorkerStop(w)
    \/ \E i \in 1 .. MaxTasks : RetryAbort(i)
    \/ \E i \in 1 .. MaxTasks : RetryTimer(i)
    \/ \E i \in 1 .. MaxTasks : RetryPublish(i)
    \/ ReadNew("frontier")
    \/ ReclaimPending("frontier")
    \/ DropPoison("frontier")
    \/ \E w \in CW : Receive(w)
    \/ \E w \in CW : DeliveryAck(w)
    \/ \E w \in CW : NackDLQAdd(w)
    \/ \E w \in CW : NackDLQAck(w)
    \/ \E w \in CW : NackRequeue(w)
    \/ \E w \in CW : CrawlerDomain(w)
    \/ \E w \in CW : CrawlerUpsertDomain(w)
    \/ \E w \in CW : CrawlerClaim(w)
    \/ \E w \in CW : CrawlerRobots(w)
    \/ \E w \in CW : CrawlerLimit(w)
    \/ \E w \in CW : CrawlerFetch(w)
    \/ \E w \in CW : CrawlerIncrement(w)
    \/ \E w \in CW : CrawlerStore(w)
    \/ \E w \in CW : CrawlerUpdate(w)
    \/ \E w \in CW : CrawlerPublish(w)

SpecShutdown == InitShutdown /\ [][NextShutdown]_vars

\* -------------------------------------------------- specification: backoff
\* backoffDuration evaluated on its own, as TestBackoffDuration does, for every
\* retry count up to MaxRetryArg and every jitter value.
InitBackoff ==
    /\ InitCommon
    /\ InitScenario([seeds |-> {}, frontier |-> <<>>, parse |-> <<>>, on |-> {}])
    /\ arg \in (0 .. MaxRetryArg) \X (0 .. JitterSteps - 1)
    /\ out = -1
    /\ backlog = 0
    /\ InitAux

Backoff ==
    /\ out = -1
    /\ out' = backoffDuration(arg[1], arg[2])
    /\ UNCHANGED <<dbVars, domainCache, blobVars, brokerVars, wk, retryTasks, envVars,
                   faults, arg, idle, backlog, auxVars>>

NextBackoff == Backoff

SpecBackoff == InitBackoff /\ [][NextBackoff]_vars

\* =================================================================== claims
Range(f) == {f[i] : i \in DOMAIN f}

\* ------------------------------------------------- specification: reclaim
\* One crawler process with one worker.  The entry on Frontier is either new,
\* or was delivered to a consumer of the group that is gone and is still pending.
InitReclaim ==
    /\ urls = [u \in URLs |-> EmptyRow]
    /\ domainRows = {}
    /\ domainCache = [s \in Streams |-> {}]
    /\ htmlStore = [u \in URLs |-> Null]
    /\ textStore = {}
    /\ dlq = [s \in Streams |-> <<>>]
    /\ \E crashed \in BOOLEAN :
          /\ pel = [s \in Streams |-> IF crashed /\ s = "frontier" THEN {1} ELSE {}]
          /\ lastId = [s \in Streams |-> IF crashed /\ s = "frontier" THEN 1 ELSE 0]
    /\ readBatch = [s \in Streams |-> <<>>]
    /\ reclaimBatch = [s \in Streams |-> <<>>]
    /\ reclaims = [s \in Streams |-> 0]
    /\ running = [s \in Streams |-> TRUE]
    /\ retryTasks = <<>>
    /\ ctxDone = [s \in Streams |-> FALSE]
    /\ faults = 0
    /\ idle = [s \in Streams |-> {}]
    /\ InitScenario([seeds |-> {}, frontier |-> <<URLMsg("u1", 0)>>, parse |-> <<>>,
                     on |-> {"c1"}])
    /\ arg = <<0, 0>>
    /\ out = -1
    /\ backlog = 0
    /\ InitAux

\* The steps of the consumer's loops and of a worker.
ConsumerStep(s) == ReadNew(s) \/ ReclaimIdle(s)

CrawlerStep(w) ==
    \/ Receive(w) \/ DeliveryAck(w) \/ NackDLQAdd(w) \/ NackDLQAck(w) \/ NackRequeue(w)
    \/ CrawlerDomain(w) \/ CrawlerUpsertDomain(w) \/ CrawlerClaim(w)
    \/ CrawlerRobots(w) \/ CrawlerLimit(w)
    \/ CrawlerFetch(w) \/ CrawlerIncrement(w) \/ CrawlerStore(w) \/ CrawlerUpdate(w)
    \/ CrawlerPublish(w)

NextReclaim ==
    \/ EntriesIdle("frontier")
    \/ ReadNew("frontier")
    \/ ReclaimIdle("frontier")
    \/ \E i \in 1 .. MaxTasks : RetryTimer(i)
    \/ \E i \in 1 .. MaxTasks : RetryPublish(i)
    \/ \E w \in CW : Receive(w)
    \/ \E w \in CW : DeliveryAck(w)
    \/ \E w \in CW : NackDLQAdd(w)
    \/ \E w \in CW : NackDLQAck(w)
    \/ \E w \in CW : NackRequeue(w)
    \/ \E w \in CW : CrawlerDomain(w)
    \/ \E w \in CW : CrawlerUpsertDomain(w)
    \/ \E w \in CW : CrawlerClaim(w)
    \/ \E w \in CW : CrawlerRobots(w)
    \/ \E w \in CW : CrawlerLimit(w)
    \/ \E w \in CW : CrawlerFetch(w)
    \/ \E w \in CW : CrawlerIncrement(w)
    \/ \E w \in CW : CrawlerStore(w)
    \/ \E w \in CW : CrawlerUpdate(w)
    \/ \E w \in CW : CrawlerPublish(w)

\* The reclaim ticker keeps firing, the read loop keeps reading and every
\* worker goroutine keeps running.
SpecReclaim ==
    /\ InitReclaim
    /\ [][NextReclaim]_vars
    /\ WF_vars(ConsumerStep("frontier"))
    /\ \A w \in CW : WF_vars(CrawlerStep(w))

\* ---- C11
\* A cap of the model is reached: no further entry or retry task can be added.
Capped ==
    \/ Len(retryTasks) >= MaxTasks
    \/ \E s \in Streams : Len(stream[s]) >= MaxStream

\* C11: while the consumer runs and the workers keep receiving, every entry with
\* a payload that is pending and idle for more than reclaimMinIdle is eventually
\* claimed by the reclaim loop (unless it is acked first), and every entry the
\* reclaim loop has claimed is eventually sent on the delivery channel.
C11_ReclaimRedelivers ==
    \A id \in 1 .. MaxStream :
        /\ (id \in idle["frontier"] /\ id \in pel["frontier"])
              ~> \/ id \notin pel["frontier"]
                 \/ id \in Range(reclaimBatch["frontier"])
                 \/ Capped
        /\ (id \in Range(reclaimBatch["frontier"]))
              ~> \/ id \notin Range(reclaimBatch["frontier"])
                 \/ Capped

C11_Witness ==
    \E w \in CW :
        /\ wk[w].pc = "idle" /\ wk[w].lastCall = "requeue"
        /\ wk[w].d \in pel["frontier"]
        /\ wk[w].d \notin idle["frontier"]
        /\ reclaimBatch["frontier"] = <<wk[w].d>>
        /\ ~Capped

\* ---- C1
\* C1: at most one crawler worker at a time holds a claim on a URL: while a
\* worker whose UpsertURLReturning returned crawling has not finished its
\* delivery, no other worker's claim for the same URL returns crawling.
C1_SingleClaimHolder ==
    \A w1, w2 \in CW :
        (w1 # w2 /\ wk[w1].holds /\ wk[w2].holds)
            => wk[w1].body.url # wk[w2].body.url

\* ---- C2
LegalTransitions ==
    {<<NoRow, StatusCrawling>>, <<NoRow, StatusPending>>,
     <<StatusPending, StatusCrawling>>, <<StatusFailed, StatusCrawling>>,
     <<StatusCrawling, StatusCrawled>>, <<StatusCrawling, StatusFailed>>,
     <<StatusCrawling, StatusSkipped>>, <<StatusCrawled, StatusParsed>>,
     <<StatusCrawled, StatusSkipped>>, <<StatusCrawling, StatusPending>>}

\* The whole transition table of C2: every change of a row's status is one of
\* the legal transitions (the reaper's crawling -> pending included).
OnlyLegalTransitions ==
    [][\A u \in URLs :
          urls'[u].status # urls[u].status
              => <<urls[u].status, urls'[u].status>> \in LegalTransitions]_vars

\* C2: every change of a row's status is a legal transition; in particular no
\* row ever leaves parsed, under any interleaving and any redelivery.  parsed
\* has no outgoing transition in the table, so a row that is parsed stays parsed.
C2_NoRowLeavesParsed ==
    [][\A u \in URLs :
          urls[u].status = StatusParsed => urls'[u].status = StatusParsed]_vars

\* ---- C3
\* C3: processMessage calls exactly one of Ack, Nack(true), Nack(false), exactly
\* once, on every path: a worker inside processMessage has made no such call yet,
\* and a worker that returned from a delivery has made exactly one.
C3_ExactlyOneAckOrNack ==
    \A w \in Workers :
        /\ wk[w].pc \notin {"idle", "off", "stopped"} => wk[w].calls = 0
        /\ (wk[w].pc = "idle" /\ wk[w].d # 0)
              => (wk[w].calls = 1 /\ wk[w].lastCall \in {"ack", "dlq", "requeue"})

C3_Witness ==
    /\ \E w \in CW : wk[w].pc = "idle" /\ wk[w].d # 0 /\ wk[w].lastCall = "ack"
    /\ \E w \in PW : wk[w].pc = "idle" /\ wk[w].d # 0 /\ wk[w].lastCall = "requeue"

\* ---- C4
\* C4: every row with status crawled has an HTML locator, and every row with
\* status parsed has a content hash and a text locator.
C4_LocatorsPresent ==
    \A u \in URLs :
        /\ urls[u].status = StatusCrawled => urls[u].html # Null
        /\ urls[u].status = StatusParsed
              => (urls[u].hash # Null /\ urls[u].text # Null)

C4_Witness ==
    \E u, v \in URLs :
        /\ urls[u].status = StatusParsed /\ urls[u].hash # Null /\ urls[u].text # Null
        /\ urls[v].status = StatusCrawled /\ urls[v].html # Null

C6_DelayOfKthRepublish ==
    \A i \in DOMAIN retryTasks :
        LET k == Cardinality({j \in 1 .. (i - 1) : retryTasks[j].url = retryTasks[i].url})
        IN  /\ retryTasks[i].delay >= Pow2(k) * MsPerSecond
            /\ 2 * retryTasks[i].delay < 3 * Pow2(k) * MsPerSecond

\* ---- C7
\* C7: for every retry count N and every jitter, backoffDuration(N) is at least
\* 2^N seconds and less than 1.5 * 2^N seconds.
C7_BackoffRange ==
    out # -1 =>
        /\ out >= Pow2(arg[1]) * MsPerSecond
        /\ 2 * out < 3 * Pow2(arg[1]) * MsPerSecond

C7_Witness ==
    /\ out # -1
    /\ arg[1] = MaxRetryArg
    /\ arg[2] = JitterSteps - 1
    /\ out > Pow2(arg[1]) * MsPerSecond

\* ---- C8
\* C8: a Nack(true) that succeeds has appended the payload unchanged as one new
\* entry of the sibling DLQ while the entry was still pending, and then removed
\* the entry from the pending-entries list.
C8_NackToDLQ ==
    [][\A w \in Workers :
          LET s == StreamOf(w) IN
          /\ (wk[w].pc = "nackDLQ" /\ wk'[w].pc = "nackDLQAck")
                => /\ dlq'[s] = Append(dlq[s], wk[w].body)
                   /\ pel' = pel
          /\ (wk[w].pc # "idle" /\ wk'[w].pc = "idle" /\ wk'[w].lastCall = "dlq"
                  /\ wk'[w].lastOk)
                => /\ wk[w].pc = "nackDLQAck"
                   /\ wk[w].body \in Range(dlq[s])
                   /\ dlq' = dlq
                   /\ pel'[s] = pel[s] \ {wk[w].d}]_vars

C8_Witness ==
    \E w \in Workers :
        /\ wk[w].pc = "idle" /\ wk[w].lastCall = "dlq" /\ wk[w].lastOk
        /\ wk[w].body \in Range(dlq[StreamOf(w)])
        /\ wk[w].d \notin pel[StreamOf(w)]

\* ---- C9
\* C9: Nack(false) changes nothing in the broker (pending-entries list, DLQ and
\* source stream are unchanged) and returns no error.
C9_NackRequeueNoOp ==
    [][\A w \in Workers :
          (wk[w].pc = "nackRequeue" /\ wk'[w].pc # "nackRequeue")
              => /\ pel' = pel
                 /\ dlq' = dlq
                 /\ stream' = stream
                 /\ wk'[w].lastCall = "requeue"
                 /\ wk'[w].lastOk]_vars

C9_Witness ==
    \E w \in Workers :
        /\ wk[w].pc = "idle" /\ wk[w].lastCall = "requeue" /\ wk[w].lastOk
        /\ wk[w].d \in pel[StreamOf(w)]

\* ---- C10
\* C10: Ack removes exactly its entry from the pending-entries list, and Ack and
\* Nack(true) act the same whether or not the root context is cancelled: unless
\* the broker itself fails, the ack removes the entry and the DLQ append is made.
C10_AckIgnoresCancel ==
    [][\A w \in CW :
          LET s == StreamOf(w) IN
          /\ (wk[w].pc \in {"ack", "ackRetry", "nackDLQAck"} /\ wk'[w].pc = "idle"
                  /\ faults' = faults)
                => /\ pel' = XAck(pel, s, wk[w].d)
                   /\ wk'[w].lastOk
          /\ (wk[w].pc = "nackDLQ" /\ wk'[w].pc # "nackDLQ" /\ faults' = faults)
                => /\ dlq'[s] = Append(dlq[s], wk[w].body)
                   /\ wk'[w].pc = "nackDLQAck"]_vars

C10_Witness ==
    /\ ctxDone["frontier"]
    /\ \E w \in CW : /\ wk[w].pc \in {"idle", "stopped"} /\ wk[w].lastCall = "ack"
                     /\ wk[w].lastOk /\ wk[w].callCtx
                     /\ wk[w].d \notin pel["frontier"]
    /\ \E w \in CW : /\ wk[w].pc \in {"idle", "stopped"} /\ wk[w].lastCall = "dlq"
                     /\ wk[w].lastOk /\ wk[w].callCtx
                     /\ wk[w].d \notin pel["frontier"]
                     /\ wk[w].body \in Range(dlq["frontier"])

\* ---- C12
\* C12: an entry whose payload field is missing, not a string or empty is never
\* handed to a worker; when the consumer meets it, fresh or reclaimed, it acks it
\* (the entry leaves the pending-entries list unless the broker fails), drops it,
\* and leaves the DLQ and the stream as they are.
C12_PoisonDropped ==
    [][\A s \in Streams :
          /\ \A w \in Workers :
                (StreamOf(w) = s /\ wk'[w].pc \notin {"idle", "off", "stopped"})
                    => stream[s][wk'[w].d].kind # "empty"
          /\ \A fresh \in BOOLEAN :
                LET batch == IF fresh THEN readBatch[s] ELSE reclaimBatch[s]
                    after == IF fresh THEN readBatch'[s] ELSE reclaimBatch'[s]
                IN  (/\ batch # <<>>
                     /\ stream[s][Head(batch)].kind = "empty"
                     /\ after # batch)
                        => /\ after = Tail(batch)
                           /\ dlq' = dlq
                           /\ stream' = stream
                           /\ wk' = wk
                           /\ pel'[s] \subseteq pel[s]
                           /\ faults' = faults => Head(batch) \notin pel'[s]]_vars

C12_Witness ==
    \E s \in Streams :
        /\ Len(stream[s]) = 1 /\ stream[s][1].kind = "empty"
        /\ reclaims[s] = 1 /\ faults = 1
        /\ readBatch[s] = <<>> /\ reclaimBatch[s] = <<>>
        /\ pel[s] = {}
        /\ dlq[s] = <<>>
        /\ \A w \in Workers : wk[w].d = 0

\* ---- C13
\* C13: every URLMessage appended to the Frontier stream by the parser, by the
\* crawler's retry task (or by the seeder) has depth <= max_depth.
C13_PublishedDepthBounded ==
    [][\A i \in (Len(stream["frontier"]) + 1) .. Len(stream'["frontier"]) :
          stream'["frontier"][i].depth <= MaxDepth]_vars

C13_Witness ==
    /\ \E i \in 2 .. Len(stream["frontier"]) :
          /\ stream["frontier"][i].depth = MaxDepth
          /\ stream["frontier"][i].url \notin Seeds
    /\ \E t \in DOMAIN retryTasks : retryTasks[t].state = "published"

\* -------------------------------------------- specification: backpressure
\* A seeded crawl with one crawler worker and one parser worker on a Frontier
\* stream that already holds BackpressureThreshold - 1 or BackpressureThreshold
\* entries.
InitBackpressure ==
    /\ InitCommon
    /\ InitScenario([seeds |-> Seeds, frontier |-> <<>>, parse |-> <<>>,
                     on |-> {"c1", "p1"}])
    /\ arg = <<0, 0>>
    /\ out = -1
    /\ backlog \in {BackpressureThreshold - 1, BackpressureThreshold}
    /\ InitAux

NextBackpressure ==
    \/ \E u \in URLs : SeedURL(u)
    \/ \E s \in Streams : ReadNew(s)
    \/ \E s \in Streams : ReclaimPending(s)
    \/ \E i \in 1 .. MaxTasks : RetryTimer(i)
    \/ \E i \in 1 .. MaxTasks : RetryPublish(i)
    \/ \E w \in Workers : Receive(w)
    \/ \E w \in Workers : DeliveryAck(w)
    \/ \E w \in Workers : NackDLQAdd(w)
    \/ \E w \in Workers : NackDLQAck(w)
    \/ \E w \in Workers : NackRequeue(w)
    \/ \E w \in CW : CrawlerDomain(w)
    \/ \E w \in CW : CrawlerUpsertDomain(w)
    \/ \E w \in CW : CrawlerClaim(w)
    \/ \E w \in CW : CrawlerRobots(w)
    \/ \E w \in CW : CrawlerLimit(w)
    \/ \E w \in CW : CrawlerFetch(w)
    \/ \E w \in CW : CrawlerIncrement(w)
    \/ \E w \in CW : CrawlerStore(w)
    \/ \E w \in CW : CrawlerUpdate(w)
    \/ \E w \in CW : CrawlerPublish(w)
    \/ \E w \in PW : ParserGet(w)
    \/ \E w \in PW : ParserDedup(w)
    \/ \E w \in PW : ParserSkip(w)
    \/ \E w \in PW : ParserText(w)
    \/ \E w \in PW : ParserStreamLen(w)
    \/ \E w \in PW : ParserDomains(w)
    \/ \E w \in PW : ParserUpsertDomain(w)
    \/ \E w \in PW : ParserInsert(w)
    \/ \E w \in PW : ParserPublishBatch(w)
    \/ \E w \in PW : ParserUpdate(w)

SpecBackpressure == InitBackpressure /\ [][NextBackpressure]_vars

\* ---- C14
\* C14: when the Frontier length the parser observes for a page is above 80,000
\* the parser inserts no row and publishes no Frontier entry for that page, and
\* still has the text blob stored, sets the row to parsed and Acks; at a length
\* of 80,000 or less it goes on to the insert.
C14_BackpressureSkipsLinks ==
    [][\A w \in PW :
          LET u == wk[w].body.url IN
          /\ (wk[w].pc = "streamlen" /\ wk'[w].pc # "streamlen" /\ faults' = faults)
                => /\ u \in textStore
                   /\ urls' = urls /\ stream' = stream
                   /\ wk'[w].pc = IF backlog + Len(stream["frontier"]) > BackpressureThreshold
                                  THEN "parsed" ELSE "insert"
          /\ (wk[w].pc = "parsed" /\ wk'[w].pc # "parsed" /\ faults' = faults)
                => /\ urls'[u].status = StatusParsed
                   /\ \A v \in URLs \ {u} : urls'[v] = urls[v]
                   /\ stream' = stream
                   /\ wk'[w].pc = "ack"
          /\ (backlog >= BackpressureThreshold /\ faults' = 0)
                => /\ \A v \in URLs \ Seeds : urls'[v].status = NoRow
                   /\ \A i \in DOMAIN stream'["frontier"] :
                         stream'["frontier"][i].url \in Seeds]_vars

C14_Witness ==
    /\ backlog >= BackpressureThreshold /\ faults = 0
    /\ \E w \in PW : /\ wk[w].pc = "idle" /\ wk[w].lastCall = "ack" /\ wk[w].lastOk
                     /\ Links[wk[w].body.url] # {}
                     /\ wk[w].body.depth < MaxDepth
                     /\ urls[wk[w].body.url].status = StatusParsed
                     /\ wk[w].body.url \in textStore
                     /\ \A v \in Links[wk[w].body.url] : urls[v].status = NoRow

\* ------------------------------------------------ content dedup specification
\* Two parser workers of one process, and two crawled pages whose stored HTML
\* is byte-identical, both announced on the Parse stream.
InitDedup ==
    /\ urls = [u \in URLs |-> [NewRow(StatusCrawled) EXCEPT !.html = Link(u)]]
    /\ domainRows = {Domain}
    /\ domainCache = [s \in Streams |-> {}]
    /\ htmlStore = [u \in URLs |-> PageBody[u]]
    /\ textStore = {}
    /\ dlq = [s \in Streams |-> <<>>]
    /\ pel = [s \in Streams |-> {}]
    /\ lastId = [s \in Streams |-> 0]
    /\ readBatch = [s \in Streams |-> <<>>]
    /\ reclaimBatch = [s \in Streams |-> <<>>]
    /\ reclaims = [s \in Streams |-> 0]
    /\ running = [s \in Streams |-> TRUE]
    /\ retryTasks = <<>>
    /\ ctxDone = [s \in Streams |-> FALSE]
    /\ faults = 0
    /\ idle = [s \in Streams |-> {}]
    /\ InitScenario([seeds |-> {}, frontier |-> <<>>,
                     parse |-> <<ParseMsg("u1", Link("u1"), 0),
                                 ParseMsg("u2", Link("u2"), 1)>>,
                     on |-> PW])
    /\ arg = <<0, 0>>
    /\ out = -1
    /\ backlog = 0
    /\ InitAux

NextDedup ==
    \/ ReadNew("parse")
    \/ ReclaimPending("parse")
    \/ \E w \in PW : Receive(w)
    \/ \E w \in PW : DeliveryAck(w)
    \/ \E w \in PW : NackRequeue(w)
    \/ \E w \in PW : ParserGet(w)
    \/ \E w \in PW : ParserDedup(w)
    \/ \E w \in PW : ParserSkip(w)
    \/ \E w \in PW : ParserText(w)
    \/ \E w \in PW : ParserStreamLen(w)
    \/ \E w \in PW : ParserDomains(w)
    \/ \E w \in PW : ParserUpsertDomain(w)
    \/ \E w \in PW : ParserInsert(w)
    \/ \E w \in PW : ParserPublishBatch(w)
    \/ \E w \in PW : ParserUpdate(w)

SpecDedup == InitDedup /\ [][NextDedup]_vars

\* ---- C15
\* C15: among the URLs whose stored HTML is byte-identical at most one is ever
\* in status parsed, whatever the interleaving of the parser workers.
C15_AtMostOneParsed ==
    \A u, v \in URLs :
        (u # v /\ htmlStore[u] # Null /\ htmlStore[u] = htmlStore[v])
            => ~(urls[u].status = StatusParsed /\ urls[v].status = StatusParsed)

\* ---- C16
\* C16: when the parser marks a URL skipped because the hash of its HTML is
\* already recorded, that row's content_hash is the hash of its HTML afterwards.
C16_SkippedRowHasHash ==
    [][\A w \in PW :
          (wk[w].pc = "skip" /\ wk'[w].pc = "ack" /\ faults' = faults)
              => /\ urls'[wk[w].body.url].status = StatusSkipped
                 /\ urls'[wk[w].body.url].hash = ContentHash(wk[w].data)]_vars

\* ---------------------------------------------------- rate limiter (Allow)
TickMs == MsPerSecond \div 4

CeilDiv(a, b) == (a + b - 1) \div b

\* ZREMRANGEBYSCORE key -inf max: what is left of the set.
ZRemRangeByScore(z, max) == {m \in z : m.score > max}

\* ZADD key score member: a member already in the set only gets the new score.
ZAdd(z, score, member) ==
    {m \in z : m.member # member} \cup {[score |-> score, member |-> member]}

\* The key as a script finds it at time t: gone once its TTL has run out.
LiveKey(z, e, srv) == IF e # -1 /\ srv >= e THEN {} ELSE z

\* redis.call('ZADD', key, now, now .. '-' .. math.random(1000000)), r the draw.
ZAddMember(z, t, r) == ZAdd(z, t, <<t, r>>)

\* slidingWindowScript run at server time srv with KEYS[1] holding z, ARGV =
\* (t, window, limit) and r the number math.random returns: the reply, the set
\* and the TTL afterwards.
slidingWindowScript(z, e, srv, t, window, limit, r) ==
    LET kept == ZRemRangeByScore(LiveKey(z, e, srv), t - window)
        count == Cardinality(kept)
        ttl == CeilDiv(window, MsPerSecond) * MsPerSecond
    IN  IF count < limit
        THEN [reply |-> 1,
              zset |-> IF ttl <= 0 THEN {} ELSE ZAddMember(kept, t, r),
              expireAt |-> IF ttl <= 0 THEN -1 ELSE srv + ttl]
        ELSE [reply |-> 0,
              zset |-> kept,
              expireAt |-> IF kept = {} THEN -1 ELSE e]

\* RateLimiter.Allow(ctx, domain, windowMs, limit) with now := time.Now().
Allow ==
    /\ rlLast.n < MaxCalls
    /\ \E r \in 1 .. RandMax :
          LET res == slidingWindowScript(zset, expireAt, now, now, rlArgs.windowMs,
                                         rlArgs.limit, r)
          IN  /\ zset' = res.zset
              /\ expireAt' = res.expireAt
              /\ rlLast' = [n |-> rlLast.n + 1, allowed |-> res.reply = 1]
              /\ granted' = IF res.reply = 1 THEN Append(granted, now) ELSE granted
    /\ UNCHANGED <<otherVars, dnsVars, now, rlArgs, lw, fetched>>

\* Time passes between two calls.
Tick ==
    /\ now < MaxTicks * TickMs
    /\ now' = now + TickMs
    /\ UNCHANGED <<otherVars, dnsVars, zset, expireAt, rlArgs, rlLast, granted, lw,
                   fetched>>

InitAllow ==
    /\ InitCommon
    /\ InitScenario([seeds |-> {}, frontier |-> <<>>, parse |-> <<>>, on |-> {}])
    /\ arg = <<0, 0>>
    /\ out = -1
    /\ backlog = 0
    /\ now = 0
    /\ zset = {}
    /\ expireAt = -1
    /\ rlArgs \in [windowMs : {0, 2 * TickMs, MsPerSecond}, limit : 1 .. MaxLimit]
    /\ rlLast = [n |-> 0, allowed |-> FALSE]
    /\ granted = <<>>
    /\ lw = [w \in CW |-> [pc |-> "off", ts |-> 0, wake |-> 0]]
    /\ fetched = <<>>
    /\ DnsIdle
    /\ ProxyIdle
    /\ RestIdle

NextAllow == Allow \/ Tick

SpecAllow == InitAllow /\ [][NextAllow]_vars

\* ---- C17
\* C17: with timestamps that do not decrease, a call of Allow is allowed exactly
\* when fewer than limit earlier allowed calls have a timestamp later than
\* now - windowMs, and a denied call records nothing.
C17_AllowedIffUnderLimit ==
    [][rlLast'.n = rlLast.n + 1
          => LET earlier == {i \in DOMAIN granted : granted[i] > now - rlArgs.windowMs}
             IN  /\ rlLast'.allowed <=> Cardinality(earlier) < rlArgs.limit
                 /\ ~rlLast'.allowed => (granted' = granted /\ zset' \subseteq zset)]_vars

\* -------------------------------------------- rate limiter (WaitForAllow)
\* The crawl delay the workers pass as the window, limit 1.
CrawlDelay == rlArgs.windowMs

\* Allow inside WaitForAllow, first half: now := time.Now().UnixMilli().
WaitStamp(w) ==
    /\ lw[w].pc = "wait" /\ now >= lw[w].wake
    /\ rlLast.n < MaxCalls
    /\ lw' = [lw EXCEPT ![w].pc = "script", ![w].ts = now, ![w].wake = 0]
    /\ UNCHANGED <<otherVars, dnsVars, now, zset, expireAt, rlArgs, rlLast, granted,
                   fetched>>

\* Second half: the script runs on the server with the time the caller read;
\* allowed returns nil, denied sleeps crawlDelay/2 + jitter and calls again.
WaitScript(w) ==
    /\ lw[w].pc = "script"
    /\ \E r \in 1 .. RandMax, jitter \in {0, (CrawlDelay \div 2) - 1} :
          LET res == slidingWindowScript(zset, expireAt, now, lw[w].ts, CrawlDelay, 1, r)
          IN  /\ zset' = res.zset
              /\ expireAt' = res.expireAt
              /\ rlLast' = [n |-> rlLast.n + 1, allowed |-> res.reply = 1]
              /\ granted' = IF res.reply = 1 THEN Append(granted, lw[w].ts) ELSE granted
              /\ lw' = IF res.reply = 1
                       THEN [lw EXCEPT ![w].pc = "fetch", ![w].ts = 0]
                       ELSE [lw EXCEPT ![w].pc = "wait", ![w].ts = 0,
                                       ![w].wake = now + (CrawlDelay \div 2) + jitter]
    /\ UNCHANGED <<otherVars, dnsVars, now, rlArgs, fetched>>

\* c.fetcher.Fetch(ctx, msg.URL) starts; afterwards the worker takes its next
\* message of the domain.
FetchStart(w) ==
    /\ lw[w].pc = "fetch"
    /\ fetched' = Append(fetched, now)
    /\ lw' = [lw EXCEPT ![w].pc = "wait"]
    /\ UNCHANGED <<otherVars, dnsVars, now, zset, expireAt, rlArgs, rlLast, granted>>

InitPolite ==
    /\ InitCommon
    /\ InitScenario([seeds |-> {}, frontier |-> <<>>, parse |-> <<>>, on |-> {}])
    /\ arg = <<0, 0>>
    /\ out = -1
    /\ backlog = 0
    /\ now = 0
    /\ zset = {}
    /\ expireAt = -1
    /\ rlArgs \in [windowMs : {2 * TickMs, MsPerSecond}, limit : {1}]
    /\ rlLast = [n |-> 0, allowed |-> FALSE]
    /\ granted = <<>>
    /\ lw = [w \in CW |-> [pc |-> "wait", ts |-> 0, wake |-> 0]]
    /\ fetched = <<>>
    /\ DnsIdle
    /\ ProxyIdle
    /\ RestIdle

NextPolite ==
    \/ Tick
    \/ \E w \in CW : WaitStamp(w)
    \/ \E w \in CW : WaitScript(w)
    \/ \E w \in CW : FetchStart(w)

SpecPolite == InitPolite /\ [][NextPolite]_vars

\* The times in ts that fall into the second that starts at t.
InSecond(ts, t) == {i \in DOMAIN ts : t <= ts[i] /\ ts[i] < t + MsPerSecond}

\* When every call runs at the time it read (SpecAllow), limit 1 keeps the
\* timestamps of the grants a window apart: at most ceil(1000 / D) of them
\* fall into any one second.
GrantsPerSecond ==
    (rlArgs.limit = 1 /\ CrawlDelay > 0)
        => \A i \in DOMAIN granted :
              Cardinality(InSecond(granted, granted[i]))
                  <= CeilDiv(MsPerSecond, CrawlDelay)

\* ---- C18
\* C18: within any window of one second at most ceil(1000 / D) fetches of the
\* domain are started by all the crawler workers together.
C18_FetchesPerSecond ==
    \A i \in DOMAIN fetched :
        Cardinality(InSecond(fetched, fetched[i])) <= CeilDiv(MsPerSecond, CrawlDelay)

\* ---------------------------------------------------------------- DNS cache
\* An address string is modelled by what netip.ParseAddr makes of it: four
\* octets (IPv4), eight 16-bit groups (IPv6), anything else does not parse.
Addrs ==
    {<<127, 0, 0, 1>>, <<10, 0, 0, 1>>, <<172, 16, 0, 1>>, <<172, 31, 255, 255>>,
     <<172, 32, 0, 1>>, <<192, 168, 1, 1>>, <<169, 254, 1, 1>>, <<224, 0, 0, 1>>,
     <<0, 0, 0, 0>>, <<93, 184, 216, 34>>,
     <<0, 0, 0, 0, 0, 0, 0, 1>>, <<0, 0, 0, 0, 0, 0, 0, 0>>,
     <<65152, 0, 0, 0, 0, 0, 0, 1>>, <<65282, 0, 0, 0, 0, 0, 0, 1>>,
     <<64512, 0, 0, 0, 0, 0, 0, 1>>, <<9734, 10240, 544, 1, 584, 6291, 9672, 6470>>,
     <<>>, <<1>>}

Is4(a) == Len(a) = 4
Is6(a) == Len(a) = 8
ParseAddrErr(a) == ~Is4(a) /\ ~Is6(a)

IsLoopback(a) ==
    \/ Is4(a) /\ a[1] = 127
    \/ Is6(a) /\ a[8] = 1 /\ \A i \in 1 .. 7 : a[i] = 0

IsPrivate(a) ==
    \/ Is4(a) /\ \/ a[1] = 10
                 \/ a[1] = 172 /\ a[2] \div 16 = 1
                 \/ a[1] = 192 /\ a[2] = 168
    \/ Is6(a) /\ a[1] \div 512 = 126

IsLinkLocalUnicast(a) ==
    \/ Is4(a) /\ a[1] = 169 /\ a[2] = 254
    \/ Is6(a) /\ a[1] \div 64 = 1018

IsLinkLocalMulticast(a) ==
    \/ Is4(a) /\ a[1] = 224 /\ a[2] = 0 /\ a[3] = 0
    \/ Is6(a) /\ a[1] \div 256 = 255 /\ a[1] % 16 = 2

IsUnspecified(a) == (Is4(a) \/ Is6(a)) /\ \A i \in DOMAIN a : a[i] = 0

\* A filter that lets link-local addresses through.
isPrivateIPNoLinkLocal(ip) ==
    IF ParseAddrErr(ip) THEN TRUE
    ELSE IsLoopback(ip) \/ IsPrivate(ip) \/ IsUnspecified(ip)

\* isPrivateIP: unparseable, loopback, private, link-local or unspecified.
isPrivateIP(ip) ==
    IF ParseAddrErr(ip) THEN TRUE
    ELSE \/ IsLoopback(ip) \/ IsPrivate(ip) \/ IsLinkLocalUnicast(ip)
         \/ IsLinkLocalMulticast(ip) \/ IsUnspecified(ip)

\* What net.DefaultResolver.LookupHost may answer: no address, one, or two.
Answers ==
    {<<>>} \cup {<<a>> : a \in Addrs} \cup {<<a, <<127, 0, 0, 1>>>> : a \in Addrs}

\* DNSCache.LookupHost(ctx, host): getErr is a failure of GET other than
\* redis.Nil, lookupErr one of the resolver, setErr one of SET.
LookupHost(host) ==
    \E getErr, lookupErr, setErr \in BOOLEAN, addrs \in Answers :
        LET cached == dnsCache[host]
            fail(hit, seen) ==
                [host |-> host, hit |-> hit, seen |-> seen, ip |-> <<>>, err |-> TRUE]
        IN  IF ~getErr /\ cached # NoKey
            THEN /\ dnsLast' = IF isPrivateIP(cached)
                               THEN fail(TRUE, cached)
                               ELSE [host |-> host, hit |-> TRUE, seen |-> cached,
                                     ip |-> cached, err |-> FALSE]
                 /\ dnsCache' = dnsCache
            ELSE IF getErr \/ lookupErr \/ Len(addrs) = 0
            THEN /\ dnsLast' = fail(FALSE, <<>>)
                 /\ dnsCache' = dnsCache
            ELSE IF isPrivateIP(addrs[1])
            THEN /\ dnsLast' = fail(FALSE, addrs[1])
                 /\ dnsCache' = dnsCache
            ELSE /\ dnsLast' = [host |-> host, hit |-> FALSE, seen |-> addrs[1],
                                ip |-> addrs[1], err |-> FALSE]
                 /\ dnsCache' = IF setErr THEN dnsCache
                                ELSE [dnsCache EXCEPT ![host] = addrs[1]]

Lookup ==
    /\ \E host \in Hosts : LookupHost(host)
    /\ UNCHANGED <<otherVars, limiterVars>>

\* dnsTTL has run out for a key.
DnsExpire ==
    /\ \E host \in Hosts :
          /\ dnsCache[host] # NoKey
          /\ dnsCache' = [dnsCache EXCEPT ![host] = NoKey]
    /\ UNCHANGED <<otherVars, limiterVars, dnsLast>>

\* The keys may hold anything when the process starts: the broker is shared.
InitDns ==
    /\ InitCommon
    /\ InitScenario([seeds |-> {}, frontier |-> <<>>, parse |-> <<>>, on |-> {}])
    /\ arg = <<0, 0>>
    /\ out = -1
    /\ backlog = 0
    /\ LimiterIdle
    /\ dnsCache \in [Hosts -> Addrs \cup {NoKey}]
    /\ dnsLast = NoLookup
    /\ ProxyIdle
    /\ RestIdle

NextDns == Lookup \/ DnsExpire

SpecDns == InitDns /\ [][NextDns]_vars

\* ---- C19
\* C19: LookupHost returns an error or an address that parses and is neither
\* loopback, private, link-local nor unspecified, on a cache hit and on a miss;
\* and a call writes nothing to the cache but the public address it returns.
C19_NeverPrivate ==
    [][dnsLast' # dnsLast \/ dnsCache' # dnsCache
          => /\ ~dnsLast'.err
                   => /\ ~ParseAddrErr(dnsLast'.ip)
                      /\ ~IsLoopback(dnsLast'.ip) /\ ~IsPrivate(dnsLast'.ip)
                      /\ ~IsLinkLocalUnicast(dnsLast'.ip)
                      /\ ~IsLinkLocalMulticast(dnsLast'.ip)
                      /\ ~IsUnspecified(dnsLast'.ip)
                      /\ dnsLast'.ip = dnsLast'.seen
             /\ \A h \in Hosts :
                   dnsCache'[h] # dnsCache[h]
                       => \/ dnsCache'[h] = NoKey
                          \/ /\ ~dnsLast'.err /\ ~dnsLast'.hit /\ dnsLast'.host = h
                             /\ dnsCache'[h] = dnsLast'.ip]_vars

C19_Witness ==
    /\ dnsLast.err /\ ~dnsLast.hit /\ dnsLast.host = "h1"
    /\ IsLinkLocalUnicast(dnsLast.seen)
    /\ dnsCache["h1"] = NoKey
    /\ \E a \in Addrs : dnsCache["h2"] = a /\ IsPrivate(a)

\* -------------------------------------------------------- fetcher and proxies
Proxies == <<"x1", "x2">>                  \* ProxyPool.proxies, in file order
Direct == "direct"                          \* Fetcher.directClient

\* ProxyPool.Next with the counter at cnt: the first proxy from there on without
\* a health key, Null when all have one; a failure of EXISTS (existsErr) makes
\* the proxy being examined count as healthy.
ProxyNext(cnt, unh, existsErr) ==
    LET n == Len(Proxies)
        at(i) == Proxies[((cnt + i) % n) + 1]
        ok == {i \in 0 .. n - 1 : at(i) \notin unh}
    IN  IF existsErr THEN at(0)
        ELSE IF ok = {} THEN Null
        ELSE at(CHOOSE i \in ok : \A j \in ok : i <= j)

\* ProxyPool.MarkUnhealthy: SETNX of the health key; a failure is only logged.
MarkUnhealthy(unh, proxy, setErr) == IF setErr THEN unh ELSE unh \cup {proxy}

\* What client.Do and the reading of the body give one doFetch: no response at
\* all (doErr), or a response with a status code, the media type of its
\* Content-Type header (<<>> without the header) and a body that can be read
\* or not.
NoResp == [doErr |-> TRUE, status |-> 0, ctype |-> <<>>, readErr |-> FALSE]
Resp(status, ctype, readErr) ==
    [doErr |-> FALSE, status |-> status, ctype |-> ctype, readErr |-> readErr]
Responses ==
    {NoResp,
     Resp(200, <<"text", "html">>, FALSE), Resp(503, <<>>, FALSE),
     Resp(200, <<"application", "xhtml+xml">>, FALSE),
     Resp(200, <<"image", "png">>, FALSE), Resp(200, <<"text", "html">>, TRUE)}

\* The error doFetch returns: client.Do failed, the media type is neither
\* text/* nor application/xhtml+xml, or the body could not be read.
doFetchErr(r) ==
    \/ r.doErr
    \/ /\ r.ctype # <<>>
       /\ r.ctype[1] # "text"
       /\ r.ctype # <<"application", "xhtml+xml">>
    \/ r.readErr

\* One doFetch through client via with outcome r.
Attempt(via, r) == [via |-> via, err |-> doFetchErr(r), resp |-> r]

\* Fetcher.Fetch with a proxy pool: the attempts it makes, r1 and r2 being the
\* outcomes of its first and of its second doFetch.
FetchAttempts(cnt, unh, e1, e2, setErr, r1, r2) ==
    LET proxy == ProxyNext(cnt, unh, e1) IN
    IF proxy = Null THEN <<Attempt(Direct, r1)>>
    ELSE IF ~doFetchErr(r1) THEN <<Attempt(proxy, r1)>>
    ELSE LET nextProxy == ProxyNext((cnt + 1) % Len(Proxies),
                                    MarkUnhealthy(unh, proxy, setErr), e2)
         IN  IF nextProxy = Null
             THEN <<Attempt(proxy, r1), Attempt(Direct, r2)>>
             ELSE <<Attempt(proxy, r1), Attempt(nextProxy, r2)>>

Fetch(u) ==
    /\ \E e1, e2, setErr \in BOOLEAN, r1, r2 \in Responses :
          LET att == FetchAttempts(counter, unhealthy, e1, e2, setErr, r1, r2)
              viaProxy == att[1].via # Direct
          IN  /\ fetchLast' = [url |-> u, attempts |-> att, err |-> att[Len(att)].err]
              /\ unhealthy' = IF viaProxy /\ att[1].err
                              THEN MarkUnhealthy(unhealthy, att[1].via, setErr)
                              ELSE unhealthy
              /\ counter' = (counter + (IF viaProxy /\ att[1].err THEN 2 ELSE 1))
                                % Len(Proxies)
    /\ UNCHANGED <<coreVars, limiterVars, dnsVars, restVars>>

\* The cooldown of a health key has run out.
ProxyRecover(x) ==
    /\ x \in unhealthy
    /\ unhealthy' = unhealthy \ {x}
    /\ UNCHANGED <<coreVars, limiterVars, dnsVars, restVars, counter, fetchLast>>

InitFetch ==
    /\ InitCommon
    /\ InitScenario([seeds |-> {}, frontier |-> <<>>, parse |-> <<>>, on |-> {}])
    /\ arg = <<0, 0>>
    /\ out = -1
    /\ backlog = 0
    /\ LimiterIdle
    /\ DnsIdle
    /\ ProxyIdle
    /\ RestIdle

NextFetch ==
    \/ \E u \in Seeds : Fetch(u)
    \/ \E x \in Range(Proxies) : ProxyRecover(x)

SpecFetch == InitFetch /\ [][NextFetch]_vars

\* ---- C20
\* C20: when the attempt through the selected proxy fails, Fetch marks that
\* proxy unhealthy, tries the next healthy proxy once, and when that attempt
\* fails too, or no healthy proxy is left, fetches with the direct client; it
\* returns the result of its last attempt.
C20_ProxyThenDirect ==
    [][fetchLast' # fetchLast
          => LET att == fetchLast'.attempts IN
             /\ fetchLast'.err = att[Len(att)].err
             /\ \A i \in 1 .. Len(att) - 1 : att[i].err
             /\ (att[1].via # Direct /\ att[1].err)
                   => /\ Len(att) >= 2
                      /\ (att[2].via # Direct /\ att[2].err)
                            => (Len(att) = 3 /\ att[3].via = Direct)]_vars

\* ---- C21
\* C21: when the fetch through a proxy receives an HTTP response, whatever its
\* status code and headers, Fetch makes no further attempt and marks no proxy
\* unhealthy; a proxy is marked only when its client obtained no response.
C21_ResponseNeverMarksProxy ==
    [][fetchLast' # fetchLast
          => LET att == fetchLast'.attempts IN
             /\ (att[1].via # Direct /\ ~att[1].resp.doErr)
                   => (Len(att) = 1 /\ unhealthy' = unhealthy)
             /\ \A x \in unhealthy' \ unhealthy :
                   att[1].via = x /\ att[1].resp.doErr]_vars

DefaultCrawlDelayMs == 200
MinCrawlDelayMs == 100

\* A crawl delay of the group without the floor.
extractCrawlDelayNoFloor(robotsBody) ==
    IF robotsBody = BadRobots THEN DefaultCrawlDelayMs
    ELSE LET group == FindGroup(FromString(robotsBody)) IN
         IF group.delayUs > 0 THEN group.delayUs \div 1000 ELSE DefaultCrawlDelayMs

\* extractCrawlDelay: group.CrawlDelay.Milliseconds() of the selected group,
\* raised to MinCrawlDelayMs, when the delay is positive; else the default.
extractCrawlDelay(robotsBody) ==
    IF robotsBody = BadRobots THEN DefaultCrawlDelayMs
    ELSE LET group == FindGroup(FromString(robotsBody)) IN
         IF group.delayUs > 0
         THEN LET delay == group.delayUs \div 1000 IN
              IF delay < MinCrawlDelayMs THEN MinCrawlDelayMs ELSE delay
         ELSE DefaultCrawlDelayMs

\* What the remote fetch of https://<domain>/robots.txt can come to.
RemoteFailures == {"request", "network", "status", "read"}
Remotes == RemoteFailures \cup RobotsBodies \cup {BadRobots}

\* The outcomes of the calls one getRobotsText makes: HGetAll failing although
\* the key is a hash, GetDomain failing, the remote fetch, and whether the
\* writes to the broker (Del, HSet + Expire) and to the store go through.
RobotsFaults ==
    [cacheErr : BOOLEAN, dbErr : BOOLEAN, remote : Remotes,
     cacheW : BOOLEAN, dbW : BOOLEAN]

\* cacheRobotsHash: HSet body, delay and Expire in one pipeline, errors dropped.
cacheRobotsHash(cache, body, delay, ok) ==
    IF ok THEN [kind |-> "hash", body |-> body, delay |-> delay] ELSE cache

\* models.UpsertDomain: INSERT ... ON CONFLICT DO NOTHING.
UpsertDomainRow(dom, delay, ok) ==
    IF ok /\ ~dom.row THEN [row |-> TRUE, robots |-> Null, delay |-> delay] ELSE dom

\* models.UpsertDomainWithRobots: INSERT ... ON CONFLICT DO UPDATE.
UpsertDomainWithRobots(dom, body, delay, ok) ==
    IF ok THEN [row |-> TRUE, robots |-> body, delay |-> delay] ELSE dom

RobotsText(body, delay, err, fail, src, cache, dom) ==
    [body |-> body, delay |-> delay, err |-> err, fail |-> fail, src |-> src,
     cache |-> cache, dom |-> dom]

\* getRobotsText: the hash at the broker, else the domain row, else the remote
\* file.  A read of the key that fails (a key of another type, or the broker
\* down) deletes the key and goes on to the store.
getRobotsText(cache, dom, f) ==
    LET hgetErr == f.cacheErr \/ cache.kind = "string"
        cache1 == IF hgetErr /\ f.cacheW THEN NoRobotsKey ELSE cache
    IN  IF ~hgetErr /\ cache.kind = "hash"
        THEN RobotsText(cache.body, cache.delay, FALSE, "none", "cache", cache, dom)
        ELSE IF f.dbErr
        THEN RobotsText("", DefaultCrawlDelayMs, TRUE, "db", "none", cache1, dom)
        ELSE IF dom.row /\ dom.robots # Null
        THEN RobotsText(dom.robots, dom.delay, FALSE, "none", "db",
                        cacheRobotsHash(cache1, dom.robots, dom.delay, f.cacheW), dom)
        ELSE IF f.remote = "request"
        THEN RobotsText("", DefaultCrawlDelayMs, FALSE, "request", "none", cache1,
                        UpsertDomainRow(dom, DefaultCrawlDelayMs, f.dbW))
        ELSE IF f.remote \in {"network", "status"}
        THEN RobotsText("", DefaultCrawlDelayMs, FALSE, f.remote, "none",
                        cacheRobotsHash(cache1, "", DefaultCrawlDelayMs, f.cacheW),
                        UpsertDomainRow(dom, DefaultCrawlDelayMs, f.dbW))
        ELSE IF f.remote = "read"
        THEN RobotsText("", DefaultCrawlDelayMs, TRUE, "read", "none", cache1, dom)
        ELSE RobotsText(f.remote, extractCrawlDelay(f.remote), FALSE, "none", "remote",
                        cacheRobotsHash(cache1, f.remote, extractCrawlDelay(f.remote),
                                        f.cacheW),
                        UpsertDomainWithRobots(dom, f.remote,
                                               extractCrawlDelay(f.remote), f.dbW))

Verdict(allowed, delay) == [allowed |-> allowed, delay |-> delay, err |-> FALSE]

\* A checker that refuses when it has no robots.txt to go by.
IsAllowedFailClosed(g, u) ==
    IF g.err THEN Verdict(FALSE, DefaultCrawlDelayMs)
    ELSE IF g.body = "" THEN Verdict(g.fail = "none", g.delay)
    ELSE IF g.body = BadRobots THEN Verdict(FALSE, g.delay)
    ELSE Verdict(Test(FindGroup(FromString(g.body)), Path[u]), g.delay)

\* Checker.IsAllowed on the answer g of getRobotsText: allowed with the default
\* delay when g is an error, allowed when the body is empty or does not parse,
\* else group.Test on the request path.  The error it returns is always nil.
IsAllowed(g, u) ==
    IF g.err THEN Verdict(TRUE, DefaultCrawlDelayMs)
    ELSE IF g.body = "" THEN Verdict(TRUE, g.delay)
    ELSE IF g.body = BadRobots THEN Verdict(TRUE, g.delay)
    ELSE Verdict(Test(FindGroup(FromString(g.body)), Path[u]), g.delay)

\* The crawler's robots step for URL u: IsAllowed, then the rate limiter with
\* the delay it returned when allowed, else the URL is skipped.
CheckRobots(u) ==
    \E f \in RobotsFaults :
        LET g == getRobotsText(rcache, rdom, f)
            v == IsAllowed(g, u)
        IN  /\ rcache' = g.cache
            /\ rdom' = g.dom
            /\ rLast' = [url |-> u, allowed |-> v.allowed, delay |-> v.delay,
                         err |-> v.err,
                         fail |-> IF g.fail = "none" /\ g.body = BadRobots
                                  THEN "parse" ELSE g.fail,
                         src |-> g.src, body |-> g.body, cached |-> f.cacheW,
                         next |-> IF v.allowed THEN "limit" ELSE "skip"]
            /\ UNCHANGED <<baseVars, reaped, crun, runDone, pb, pins>>

\* robotsCacheTTL runs out: the key is gone.
RobotsExpire ==
    /\ rcache.kind # "none"
    /\ rcache' = NoRobotsKey
    /\ UNCHANGED <<rdom, rLast, baseVars, reaped, crun, runDone, pb, pins>>

\* The crawler, the parser and the seeder make sure the domain has a row:
\* UpsertDomain(domain, DefaultCrawlDelayMs).
EnsureDomain ==
    /\ ~rdom.row
    /\ rdom' = UpsertDomainRow(rdom, DefaultCrawlDelayMs, TRUE)
    /\ UNCHANGED <<rcache, rLast, baseVars, reaped, crun, runDone, pb, pins>>

\* The key is absent, or a string left by the old cache format.
InitRobots ==
    /\ InitCommon
    /\ InitScenario([seeds |-> {}, frontier |-> <<>>, parse |-> <<>>, on |-> {}])
    /\ arg = <<0, 0>>
    /\ out = -1
    /\ backlog = 0
    /\ LimiterIdle
    /\ DnsIdle
    /\ ProxyIdle
    /\ rcache \in {NoRobotsKey, [kind |-> "string", body |-> "", delay |-> 0]}
    /\ rdom = NoDomainRow
    /\ rLast = NoCheck
    /\ ReaperIdle
    /\ RunIdle
    /\ BatchIdle
    /\ InsertIdle

NextRobots ==
    \/ \E u \in URLs : CheckRobots(u)
    \/ RobotsExpire
    \/ EnsureDomain

SpecRobots == InitRobots /\ [][NextRobots]_vars

\* ---- C23
\* C23: IsAllowed is fail-open.  A call in which robots.txt could not be had
\* (the store failed, the request could not be built, the remote fetch failed
\* or answered another status than 200, the body could not be read) or did not
\* parse returns allowed with a nil error and the crawler goes on to the rate
\* limiter; a call returns disallowed only on a body it obtained from the
\* cache, the store or the remote host, whatever failed at the cache before.
\* After a network or status error the cache holds the empty body with the
\* default delay once the write to the broker goes through.
C23_FailOpen ==
    [][rLast' # rLast =>
             /\ ~rLast'.err
             /\ rLast'.fail # "none"
                   => /\ rLast'.allowed
                      /\ rLast'.next = "limit"
             /\ ~rLast'.allowed
                   => /\ rLast'.src \in {"cache", "db", "remote"}
                      /\ rLast'.body \in RobotsBodies \ {""}
                      /\ \E p \in FindGroup(FromString(rLast'.body)).disallow :
                             IsPrefix(p, Path[rLast'.url])
             /\ rLast'.fail \in {"db", "read"} => rLast'.delay = DefaultCrawlDelayMs
             /\ rLast'.fail \in {"network", "status"}
                   => /\ rLast'.delay = DefaultCrawlDelayMs
                      /\ rLast'.cached
                            => rcache' = [kind |-> "hash", body |-> "",
                                          delay |-> DefaultCrawlDelayMs]]_vars

C23_Witness ==
    /\ rLast.fail = "status"
    /\ rLast.url = "u2"
    /\ rLast.allowed /\ rLast.next = "limit" /\ rLast.cached
    /\ rcache = [kind |-> "hash", body |-> "", delay |-> DefaultCrawlDelayMs]
    /\ rdom = [row |-> TRUE, robots |-> Null, delay |-> DefaultCrawlDelayMs]

\* ---- C29
\* C29: the delay taken from a fetched robots.txt body is max(Crawl-Delay in
\* ms, MinCrawlDelayMs) when the selected group (that of NimbusCrawler when the
\* body has one, else that of "*") has a positive Crawl-Delay, and
\* DefaultCrawlDelayMs otherwise; every delay in the domain row, in the robots
\* cache and handed to the rate limiter is at least MinCrawlDelayMs.
C29_CrawlDelayFloor ==
    /\ rcache.kind = "hash" => rcache.delay >= MinCrawlDelayMs
    /\ rdom.row => rdom.delay >= MinCrawlDelayMs
    /\ rLast.url # Null => rLast.delay >= MinCrawlDelayMs
    /\ (rLast.src = "remote" /\ rLast.body # BadRobots) =>
          LET groups == FromString(rLast.body)
              sel == IF groups["nimbuscrawler"].present
                     THEN groups["nimbuscrawler"] ELSE groups["*"]
              ms == sel.delayUs \div 1000
          IN  /\ sel.delayUs > 0 => rLast.delay = IF ms > 100 THEN ms ELSE 100
              /\ sel.delayUs <= 0 => rLast.delay = 200
    /\ (rLast.src = "remote" /\ rLast.body = BadRobots) => rLast.delay = 200
    /\ (rLast.src = "remote" /\ rLast.body = "User-agent: *\nCrawl-delay: 5\n\nUser-agent: NimbusCrawler\nDisallow: /\nCrawl-delay: 2\n")
          => rLast.delay = 2000
    /\ (rLast.src = "remote" /\ rLast.body = "User-agent: Other\nDisallow: /\nCrawl-delay: 3\n")
          => rLast.delay = 200

C29_Witness ==
    /\ rLast.src = "remote"
    /\ rLast.body = "User-agent: *\nDisallow: /\n\nUser-agent: NimbusCrawler\nCrawl-delay: 0.01\n"
    /\ rLast.delay = 100
    /\ rcache.kind = "hash" /\ rcache.delay = 100
    /\ rdom.row /\ rdom.delay = 100 /\ rdom.robots = rLast.body

\* --------------------------------------------- the stale-claim reaper alone
notReaperVars == <<domainRows, domainCache, blobVars, brokerVars, wk, retryTasks,
                   envVars, faults, backoffVars, idle, backlog, limiterVars, dnsVars,
                   proxyVars, robotsVars, crun, runDone, pb, pins>>

\* RowsAffected() of ResetStaleCrawlingURLs.
StaleRows(tbl) == {u \in URLs : tbl[u].status = StatusCrawling /\ tbl[u].stale}

\* The seeder or the parser inserts the row of a URL.
ReaperInsert(u) ==
    /\ urls[u].status = NoRow
    /\ urls' = InsertURL(urls, u)
    /\ UNCHANGED <<reaped, notReaperVars>>

\* A crawler worker claims the URL: UpsertURLReturning and the status it returns.
ReaperClaim(u) ==
    /\ urls' = UpsertURLReturning(urls, u)
    /\ reaped' = [reaped EXCEPT !.claim = [url |-> u, status |-> urls'[u].status]]
    /\ UNCHANGED notReaperVars

\* The worker that holds the claim finishes: the row becomes crawled or skipped.
ReaperSettle(u) ==
    /\ urls[u].status = StatusCrawling
    /\ \/ urls' = UpdateURLCrawled(urls, u, Link(u))
       \/ urls' = UpdateURLStatus(urls, u, StatusSkipped)
    /\ UNCHANGED <<reaped, notReaperVars>>

\* cmd/crawler run(): count, err := ResetStaleCrawlingURLs(ctx, pool, 5 min).
RunReaper ==
    \E ok \in BOOLEAN :
        /\ urls' = IF ok THEN ResetStaleCrawlingURLs(urls) ELSE urls
        /\ reaped' = [seq |-> 1 - reaped.seq,
                      count |-> IF ok THEN Cardinality({u \in URLs : urls'[u] # urls[u]})
                                ELSE 0,
                      err |-> ~ok,
                      reset |-> IF ok THEN {u \in URLs : urls'[u] # urls[u]} ELSE {},
                      claim |-> NoReap.claim]
        /\ UNCHANGED notReaperVars

InitReaper ==
    /\ InitCommon
    /\ InitScenario([seeds |-> {}, frontier |-> <<>>, parse |-> <<>>, on |-> {}])
    /\ arg = <<0, 0>>
    /\ out = -1
    /\ backlog = 0
    /\ InitAux

NextReaper ==
    \/ \E u \in URLs : ReaperInsert(u)
    \/ \E u \in URLs : ReaperClaim(u)
    \/ \E u \in URLs : ReaperSettle(u)
    \/ RowsAge
    \/ RunReaper

SpecReaper == InitReaper /\ [][NextReaper]_vars

\* ---- C24
\* C24: a run of the reaper that succeeds sets to pending exactly the rows that
\* are in crawling with an update timestamp older than the threshold, returns
\* their number and leaves every other row as it was; a run that fails changes
\* nothing and returns 0.  A crawler claim of a row the reaper reset returns
\* crawling.
C24_ReaperResetsStale ==
    [][/\ (reaped'.seq # reaped.seq /\ ~reaped'.err) =>
             /\ \A u \in URLs :
                   IF urls[u].status = StatusCrawling /\ urls[u].stale
                   THEN urls'[u].status = StatusPending
                   ELSE urls'[u].status = urls[u].status
             /\ reaped'.count = Cardinality(StaleRows(urls))
             /\ reaped'.reset = StaleRows(urls)
       /\ (reaped'.seq # reaped.seq /\ reaped'.err) =>
             /\ urls' = urls
             /\ reaped'.count = 0
       /\ \A u \in reaped.reset :
             (urls[u].status = StatusPending /\ reaped'.claim # reaped.claim
                  /\ reaped'.claim.url = u)
                => /\ reaped'.claim.status = StatusCrawling
                   /\ urls'[u].status = StatusCrawling]_vars

C24_Witness ==
    /\ reaped.count = 1 /\ reaped.reset = {"u1"} /\ ~reaped.err
    /\ reaped.claim = [url |-> "u1", status |-> StatusCrawling]
    /\ urls["u1"].status = StatusCrawling /\ ~urls["u1"].stale
    /\ urls["u2"].status = StatusCrawling

\* ------------------------------- Consumer.Run, goroutine by goroutine
\* The consumer of the Frontier stream: readLoop, reclaimLoop and the goroutine
\* that waits for both and closes the delivery channel.  crun.read and
\* crun.reclaim are the positions of the loops, nRead and nReclaim the
\* deliveries a loop still has to send, tick a tick buffered in the ticker.
notRunVars == <<dbVars, domainCache, blobVars, brokerVars, wk, retryTasks, seeds,
                backoffVars, idle, backlog, limiterVars, dnsVars, proxyVars, robotsVars,
                reaped, runDone, pb, pins>>

\* defer c.wg.Done() of a loop that returns.
LoopDone(r) == [r EXCEPT !.wg = @ - 1]

\* A closer that does not wait for the loops.
CloserReadyNoWait(r) == TRUE

\* c.wg.Wait() returns.
CloserReady(r) == r.wg = 0

\* readLoop: the check of ctx.Err() at the top of the loop.
ReadCheck ==
    /\ crun.read = "check"
    /\ crun' = IF ctxDone["frontier"]
               THEN LoopDone([crun EXCEPT !.read = "exited"])
               ELSE [crun EXCEPT !.read = "xread"]
    /\ UNCHANGED <<faults, ctxDone, notRunVars>>

\* readLoop: XREADGROUP returns n entries, none (redis.Nil), or an error; on an
\* error the loop returns when the context is cancelled and sleeps otherwise.
ReadXRead ==
    /\ crun.read = "xread"
    /\ \E ok \in BOOLEAN :
          /\ CtxCall("frontier", ok)
          /\ IF ok
             THEN \E n \in 0 .. MaxStream :
                     crun' = IF n = 0 THEN [crun EXCEPT !.read = "check"]
                             ELSE [crun EXCEPT !.read = "send", !.nRead = n]
             ELSE crun' = IF ctxDone["frontier"]
                          THEN LoopDone([crun EXCEPT !.read = "exited"])
                          ELSE [crun EXCEPT !.read = "sleep"]
    /\ UNCHANGED <<ctxDone, notRunVars>>

\* readLoop: time.Sleep(time.Second) is over.
ReadSleep ==
    /\ crun.read = "sleep"
    /\ crun' = [crun EXCEPT !.read = "check"]
    /\ UNCHANGED <<faults, ctxDone, notRunVars>>

\* readLoop: ch <- d is selected because a worker receives, or buildDelivery
\* drops the entry; after the last entry the loop starts over.
ReadSend ==
    /\ crun.read = "send"
    /\ \E drop \in BOOLEAN :
          crun' = [crun EXCEPT !.nRead = @ - 1,
                               !.read = IF crun.nRead = 1 THEN "check" ELSE "send",
                               !.got = @ \/ ~drop,
                               !.late = @ \/ (~drop /\ crun.closed)]
    /\ UNCHANGED <<faults, ctxDone, notRunVars>>

\* readLoop: <-ctx.Done() is selected in the send; the loop returns.
ReadSendDone ==
    /\ crun.read = "send"
    /\ ctxDone["frontier"]
    /\ crun' = LoopDone([crun EXCEPT !.read = "exited", !.nRead = 0])
    /\ UNCHANGED <<faults, ctxDone, notRunVars>>

\* The ticker of reclaimLoop fires every reclaimInterval until it is stopped.
TickFire ==
    /\ crun.reclaim \notin {"off", "exited"}
    /\ ~crun.tick
    /\ crun' = [crun EXCEPT !.tick = TRUE]
    /\ UNCHANGED <<faults, ctxDone, notRunVars>>

\* reclaimLoop: the select takes <-ctx.Done() and the loop returns.
ReclaimExit ==
    /\ crun.reclaim = "tick"
    /\ ctxDone["frontier"]
    /\ crun' = LoopDone([crun EXCEPT !.reclaim = "exited", !.tick = FALSE])
    /\ UNCHANGED <<faults, ctxDone, notRunVars>>

\* reclaimLoop: the select takes <-ticker.C and reclaimPending starts.
ReclaimTick ==
    /\ crun.reclaim = "tick"
    /\ crun.tick
    /\ crun' = [crun EXCEPT !.reclaim = "claim", !.tick = FALSE]
    /\ UNCHANGED <<faults, ctxDone, notRunVars>>

\* reclaimPending: XAUTOCLAIM returns n entries, or fails and reclaimPending
\* returns; with no entry the scan is over.
ReclaimClaim ==
    /\ crun.reclaim = "claim"
    /\ \E ok \in BOOLEAN :
          /\ CtxCall("frontier", ok)
          /\ IF ok
             THEN \E n \in 0 .. MaxStream :
                     crun' = IF n = 0 THEN [crun EXCEPT !.reclaim = "tick"]
                             ELSE [crun EXCEPT !.reclaim = "send", !.nReclaim = n]
             ELSE crun' = [crun EXCEPT !.reclaim = "tick"]
    /\ UNCHANGED <<ctxDone, notRunVars>>

\* reclaimPending: ch <- d is selected, or buildDelivery drops the entry; after
\* the last entry the scan goes on from newStart or is over ("0-0").
ReclaimSend ==
    /\ crun.reclaim = "send"
    /\ \E drop \in BOOLEAN, more \in BOOLEAN :
          crun' = [crun EXCEPT !.nReclaim = @ - 1,
                               !.reclaim = IF crun.nReclaim > 1 THEN "send"
                                           ELSE IF more THEN "claim" ELSE "tick",
                               !.got = @ \/ ~drop,
                               !.late = @ \/ (~drop /\ crun.closed)]
    /\ UNCHANGED <<faults, ctxDone, notRunVars>>

\* reclaimPending: <-ctx.Done() is selected in the send; reclaimPending returns.
ReclaimSendDone ==
    /\ crun.reclaim = "send"
    /\ ctxDone["frontier"]
    /\ crun' = [crun EXCEPT !.reclaim = "tick", !.nReclaim = 0]
    /\ UNCHANGED <<faults, ctxDone, notRunVars>>

\* Run's third goroutine: c.wg.Wait() has returned; close(ch).
CloseChannel ==
    /\ crun.read # "off"
    /\ crun.closes = 0
    /\ CloserReady(crun)
    /\ crun' = [crun EXCEPT !.closed = TRUE, !.closes = @ + 1]
    /\ UNCHANGED <<faults, ctxDone, notRunVars>>

\* Consumer.Run has started the three goroutines: c.wg.Add(2).
InitConsumerRun ==
    /\ InitCommon
    /\ InitScenario([seeds |-> {}, frontier |-> <<>>, parse |-> <<>>, on |-> {}])
    /\ arg = <<0, 0>>
    /\ out = -1
    /\ backlog = 0
    /\ LimiterIdle
    /\ DnsIdle
    /\ ProxyIdle
    /\ RobotsIdle
    /\ ReaperIdle
    /\ BatchIdle
    /\ InsertIdle
    /\ runDone = FALSE
    /\ crun = [NoRun EXCEPT !.read = "check", !.reclaim = "tick", !.wg = 2]

ReadLoopStep == ReadCheck \/ ReadXRead \/ ReadSleep \/ ReadSendDone
ReclaimStep == ReclaimClaim \/ ReclaimSendDone

NextConsumerRun ==
    \/ Cancel("frontier")
    \/ ReadCheck
    \/ ReadXRead
    \/ ReadSleep
    \/ ReadSend
    \/ ReadSendDone
    \/ TickFire
    \/ ReclaimExit
    \/ ReclaimTick
    \/ ReclaimClaim
    \/ ReclaimSend
    \/ ReclaimSendDone
    \/ CloseChannel

\* Every goroutine that can run does run.  In reclaimLoop's select the case
\* <-ctx.Done() is ready from the cancellation on while a tick is ready only
\* once per reclaimInterval, and select picks among the ready cases at random:
\* the loop does not take the ticker's case for ever.
SpecConsumerRun ==
    /\ InitConsumerRun
    /\ [][NextConsumerRun]_vars
    /\ WF_vars(ReadLoopStep)
    /\ WF_vars(ReclaimStep)
    /\ SF_vars(ReclaimExit)
    /\ WF_vars(CloseChannel)

\* ---- C25
\* C25: once the consumer's context is cancelled the delivery channel is
\* eventually closed; it is closed once, only after readLoop and reclaimLoop
\* have both returned, and no delivery is sent on it after the close.
C25_ChannelClosesAfterLoops ==
    /\ (ctxDone["frontier"] /\ crun.read # "off") ~> crun.closed
    /\ [](crun.closed => /\ crun.read = "exited"
                         /\ crun.reclaim = "exited"
                         /\ crun.nRead = 0 /\ crun.nReclaim = 0
                         /\ ~crun.late)
    /\ [](crun.closes = IF crun.closed THEN 1 ELSE 0)
    /\ [][crun.closed => crun' = crun]_vars

C25_Witness ==
    /\ ctxDone["frontier"]
    /\ crun.closed /\ crun.closes = 1 /\ crun.wg = 0
    /\ crun.read = "exited" /\ crun.reclaim = "exited"
    /\ crun.got

\* --------------------------------------------- Crawler.Run until it returns
\* Crawler.Run that waits for the workers only.
RunMayReturnNoRetryWait(workers, tasks) ==
    \A w \in CW : workers[w].pc \in {"off", "stopped"}

\* wg.Wait() and c.retryWg.Wait() have returned: every worker goroutine is
\* done and so is every retry goroutine.
RunMayReturn(workers, tasks) ==
    /\ \A w \in CW : workers[w].pc \in {"off", "stopped"}
    /\ \A i \in DOMAIN tasks : tasks[i].state \notin {"waiting", "due"}

\* Crawler.Run returns.
CrawlerRunReturn ==
    /\ ~runDone
    /\ RunMayReturn(wk, retryTasks)
    /\ runDone' = TRUE
    /\ UNCHANGED <<baseVars, robotsVars, reaped, crun, pb, pins>>

\* One step of worker w's goroutine other than the receive.
WorkerStep(w) ==
    \/ WorkerStop(w)
    \/ DeliveryAck(w)
    \/ NackDLQAdd(w)
    \/ NackDLQAck(w)
    \/ NackRequeue(w)
    \/ CrawlerDomain(w)
    \/ CrawlerUpsertDomain(w)
    \/ CrawlerClaim(w)
    \/ CrawlerRobots(w)
    \/ CrawlerLimit(w)
    \/ CrawlerFetch(w)
    \/ CrawlerIncrement(w)
    \/ CrawlerStore(w)
    \/ CrawlerUpdate(w)
    \/ CrawlerPublish(w)

\* One step of the i-th retry goroutine.
RetryStep(i) == RetryAbort(i) \/ RetryTimer(i) \/ RetryPublish(i)

\* One crawler process with both workers and one URL on the Frontier stream.
InitRun ==
    /\ InitCommon
    /\ InitScenario([seeds |-> {}, frontier |-> <<URLMsg("u1", 0)>>, parse |-> <<>>,
                     on |-> {"c1", "c2"}])
    /\ arg = <<0, 0>>
    /\ out = -1
    /\ backlog = 0
    /\ InitAux

NextRun ==
    \/ Cancel("frontier")
    \/ ConsumerStop("frontier")
    \/ ReadNew("frontier")
    \/ \E w \in CW : Receive(w)
    \/ \E w \in CW : WorkerStep(w)
    \/ \E i \in 1 .. MaxTasks : RetryStep(i)
    \/ CrawlerRunReturn

\* Every goroutine that can take a step takes one: the workers, the retry
\* goroutines and Run itself.
SpecRun ==
    /\ InitRun
    /\ [][NextRun]_vars
    /\ \A w \in CW : WF_vars(WorkerStep(w))
    /\ \A i \in 1 .. MaxTasks : WF_vars(RetryStep(i))
    /\ WF_vars(CrawlerRunReturn)

\* ---- C26
\* C26: Crawler.Run has returned only when every worker has returned and every
\* retry goroutine has finished its re-publish or aborted; once the root
\* context is cancelled Crawler.Run eventually returns (a retry goroutine whose
\* timer has fired still makes its PublishURL, so the run is followed up to the
\* model's cap on the length of the stream).
C26_RunReturnsAfterAll ==
    /\ [](runDone => /\ \A w \in CW : wk[w].pc = "stopped"
                     /\ \A i \in DOMAIN retryTasks :
                           retryTasks[i].state \in {"published", "failed", "aborted"})
    /\ [][runDone => (wk' = wk /\ retryTasks' = retryTasks /\ runDone')]_vars
    /\ ctxDone["frontier"] ~> (runDone \/ Len(stream["frontier"]) >= MaxStream)

C26_Witness ==
    /\ runDone
    /\ ctxDone["frontier"]
    /\ \A w \in CW : wk[w].pc = "stopped"
    /\ \E i \in DOMAIN retryTasks : retryTasks[i].state = "aborted"
    /\ \E i \in DOMAIN retryTasks : retryTasks[i].state = "published"

\* ---- C27
\* C27: a crawl interrupted by a failure of PutObject, UpdateURLCrawled or
\* PublishParse is completed after the redelivery: when a crawler worker
\* acknowledges a delivery of a URL whose row is crawled, and no other worker
\* is processing that URL, the URL's ParseMessage is on the Parse stream.
C27_RequeuedCrawlCompletes ==
    [][\A w \in CW :
          LET u == wk[w].body.url IN
          (/\ wk[w].pc = "ack" /\ wk'[w].pc = "idle" /\ wk'[w].lastOk
           /\ wk[w].body.kind = "url" /\ u \in URLs
           /\ urls[u].status = StatusCrawled
           /\ \A v \in CW \ {w} :
                 wk[v].pc \in {"idle", "off", "stopped"} \/ wk[v].body.url # u)
             => \E i \in DOMAIN stream["parse"] :
                   stream["parse"][i].kind = "parse" /\ stream["parse"][i].url = u]_vars

\* ------------------------------------------------ PublishURLBatch alone
pipelineBatchMax == 500

notBatchVars == <<baseVars, robotsVars, reaped, crun, runDone, pins>>

\* The lengths of the slices PublishURLBatch is called with.
BatchSizes == {0, 1, 2, 3, 499, 500, 501, 999, 1000, 1001, 1500}

\* The i-th message of a batch; neighbours differ.
BatchMsg(i) == URLMsg(IF i % 2 = 1 THEN "u1" ELSE "u2", i % 3)

Batches == {[i \in 1 .. n |-> BatchMsg(i)] : n \in BatchSizes}

\* Entries on the Frontier stream before the call.
Before(pre) == [i \in 1 .. pre |-> URLMsg("u1", 0)]

\* A batch sent as one pipeline.
ChunkEndAll(i, n) == n

\* end := i + pipelineBatchMax, cut to len(msgs).
ChunkEnd(i, n) == IF i + pipelineBatchMax > n THEN n ELSE i + pipelineBatchMax

\* One turn of PublishURLBatch: the return for an empty slice, else one chunk.
\* The pipeline of msgs[i:end] is executed; when Exec fails the broker may have
\* applied none, some or all of its XADDs, and the call returns the error.
PublishChunk ==
    /\ pb.ret = "running"
    /\ IF Len(pb.in) = 0
       THEN pb' = [pb EXCEPT !.ret = "nil"]
       ELSE LET end == ChunkEnd(pb.pos, Len(pb.in))
                size == end - pb.pos
            IN  \E ok \in BOOLEAN, applied \in {0, 1, size} :
                   IF ok
                   THEN /\ applied = size
                        /\ pb' = [pb EXCEPT
                                    !.stream = @ \o SubSeq(pb.in, pb.pos + 1, end),
                                    !.pos = end,
                                    !.pipe = IF size > @ THEN size ELSE @,
                                    !.ret = IF end >= Len(pb.in) THEN "nil" ELSE "running"]
                   ELSE pb' = [pb EXCEPT
                                 !.stream = @ \o SubSeq(pb.in, pb.pos + 1, pb.pos + applied),
                                 !.pipe = IF size > @ THEN size ELSE @,
                                 !.ret = "err"]
    /\ UNCHANGED notBatchVars

InitBatch ==
    /\ InitCommon
    /\ InitScenario([seeds |-> {}, frontier |-> <<>>, parse |-> <<>>, on |-> {}])
    /\ arg = <<0, 0>>
    /\ out = -1
    /\ backlog = 0
    /\ LimiterIdle
    /\ DnsIdle
    /\ ProxyIdle
    /\ RobotsIdle
    /\ ReaperIdle
    /\ RunIdle
    /\ InsertIdle
    /\ \E msgs \in Batches, pre \in 0 .. 1 :
          pb = [in |-> msgs, pre |-> pre, pos |-> 0, stream |-> Before(pre),
                ret |-> "running", pipe |-> 0]

NextBatch == PublishChunk

SpecBatch == InitBatch /\ [][NextBatch]_vars

\* ---- C28
\* C28: a PublishURLBatch that returns nil has appended its n messages to the
\* Frontier stream, one entry each and in input order, for n = 0 and for n
\* below, at and above the chunk size; no pipeline holds more than 500
\* entries; when a chunk fails the call returns an error and the entries of
\* the chunks before it are on the stream.
C28_BatchAppendsInOrder ==
    /\ pb.pipe <= 500
    /\ pb.ret = "nil" =>
          /\ pb.stream = Before(pb.pre) \o pb.in
          /\ Len(pb.stream) = pb.pre + Len(pb.in)
    /\ pb.ret \in {"running", "err"} =>
          /\ pb.pos % 500 = 0
          /\ pb.pos <= Len(pb.in)
          /\ Len(pb.stream) >= pb.pre + pb.pos
          /\ SubSeq(pb.stream, 1, pb.pre + pb.pos)
                = Before(pb.pre) \o SubSeq(pb.in, 1, pb.pos)
    /\ pb.ret = "err" =>
          /\ pb.pos < Len(pb.in)
          /\ Len(pb.stream) <= pb.pre + pb.pos + 500
          /\ pb.stream = SubSeq(Before(pb.pre) \o pb.in, 1, Len(pb.stream))

C28_Witness ==
    /\ pb.ret = "err"
    /\ Len(pb.in) = 1001
    /\ pb.pos = 1000
    /\ pb.pipe = 500
    /\ Len(pb.stream) = pb.pre + 1000

\* ---- C30
\* C30: a delivery whose body does not decode goes to Nack(true) and nowhere
\* else: the worker that has it changes no row of the urls or domains table,
\* writes no blob, fetches nothing, schedules no retry and publishes nothing
\* on Frontier or Parse; its only steps are the XADD of the payload to the DLQ
\* of its stream and the XACK of the entry.
C30_UndecodableToDLQ ==
    [][\A w \in Workers :
          LET s == StreamOf(w) IN
          /\ (wk[w].pc = "idle" /\ wk'[w].pc \notin {"idle", "stopped"}
                  /\ wk'[w].body.kind = "bad")
                => wk'[w].pc = "nackDLQ"
          /\ (wk[w].body.kind = "bad" /\ wk[w].pc # "idle" /\ wk'[w] # wk[w])
                => /\ wk[w].pc \in {"nackDLQ", "nackDLQAck"}
                   /\ wk'[w].pc \in {"nackDLQAck", "idle"}
                   /\ wk'[w].pc = "idle" => wk'[w].lastCall = "dlq"
                   /\ urls' = urls /\ domainRows' = domainRows
                   /\ blobVars' = blobVars
                   /\ stream' = stream
                   /\ retryTasks' = retryTasks
                   /\ (wk[w].pc = "nackDLQ" /\ wk'[w].pc = "nackDLQAck")
                         => dlq'[s] = Append(dlq[s], BadPayload)
                   /\ wk[w].pc = "nackDLQAck" => dlq' = dlq]_vars

C30_Witness ==
    /\ \A w \in {"c1", "p1"} :
          /\ wk[w].pc = "idle" /\ wk[w].body = BadPayload
          /\ wk[w].lastCall = "dlq" /\ wk[w].lastOk
    /\ dlq = [s \in Streams |-> <<BadPayload>>]
    /\ pel = [s \in Streams |-> {}]
    /\ urls = [u \in URLs |-> EmptyRow]
    /\ stream = [s \in Streams |-> <<BadPayload>>]
    /\ retryTasks = <<>>

\* ---- C31
\* C31: a Frontier delivery for a URL whose row is crawled, parsed or skipped
\* is dropped: the claim returns the row's status and leaves it as it was, and
\* the worker goes to its Ack and from there back to the channel, with no row
\* changed, no robots check, no rate-limiter wait, no fetch, no blob written,
\* nothing published and no retry scheduled.  A claim that fails is requeued.
Settled == {StatusCrawled, StatusParsed, StatusSkipped}

C31_SettledIsDropped ==
    [][\A w \in CW :
          LET u == wk[w].body.url IN
          /\ (wk[w].pc = "claim" /\ urls[u].status \in Settled /\ wk'[w] # wk[w])
                => /\ wk'[w].pc = IF faults' = faults /\ ~ctxDone["frontier"]
                                  THEN "ack" ELSE "nackRequeue"
                   /\ ~wk'[w].holds /\ wk'[w].robots = "none" /\ wk'[w].data = Null
                   /\ \A v \in URLs :
                         /\ urls'[v].status = urls[v].status
                         /\ urls'[v].html = urls[v].html
                         /\ urls'[v].retry = urls[v].retry
                   /\ blobVars' = blobVars /\ stream' = stream
                   /\ retryTasks' = retryTasks
          /\ (wk[w].pc = "ack" /\ wk[w].body.kind = "url" /\ u \in URLs
                  /\ ~wk[w].holds /\ wk[w].body.depth <= MaxDepth /\ wk'[w] # wk[w])
                => /\ wk'[w].pc = "idle" /\ wk'[w].lastCall = "ack"
                   /\ wk[w].robots = "none" /\ wk[w].data = Null
                   /\ urls' = urls /\ blobVars' = blobVars /\ stream' = stream
                   /\ retryTasks' = retryTasks]_vars

C31_Witness ==
    \E w \in CW :
       /\ wk[w].pc = "idle" /\ wk[w].lastCall = "ack" /\ wk[w].lastOk
       /\ wk[w].body = URLMsg("u1", 0)
       /\ wk[w].robots = "none" /\ wk[w].data = Null
       /\ urls["u1"].status = StatusParsed
       /\ wk[w].d \notin pel["frontier"]
       /\ \A v \in CW \ {w} : wk[v].pc \in {"idle", "off"}
       /\ Len(stream["parse"]) = 1

\* ---- C32
\* C32: a failed fetch below the retry budget is acknowledged and, in the same
\* branch after the Ack, one retry task is scheduled that carries the url and
\* depth of the delivery.  The task calls PublishURL once, and only after its
\* timer fired: a new Frontier entry in a crawler process is the URLMessage of
\* one task that was due and is now published, a task ends once, and a task
\* that is still waiting when the root context is cancelled ends as aborted
\* with nothing appended.
TaskDone == {"published", "failed", "aborted"}

C32_RetryRepublishesOnce ==
    [][/\ \A w \in CW :
             (wk[w].pc = "ackRetry" /\ wk'[w] # wk[w])
                => /\ wk'[w].pc = "idle" /\ wk'[w].lastCall = "ack"
                   /\ retryTasks' = Append(retryTasks, retryTasks'[Len(retryTasks')])
                   /\ retryTasks'[Len(retryTasks')].url = wk[w].body.url
                   /\ retryTasks'[Len(retryTasks')].depth = wk[w].body.depth
                   /\ retryTasks'[Len(retryTasks')].state = "waiting"
                   /\ stream' = stream
       /\ (\A w \in CW : wk[w].pc = "ackRetry" => wk'[w] = wk[w])
             => Len(retryTasks') = Len(retryTasks)
       /\ \A i \in DOMAIN retryTasks :
             /\ retryTasks'[i].url = retryTasks[i].url
             /\ retryTasks'[i].depth = retryTasks[i].depth
             /\ retryTasks[i].state \in TaskDone => retryTasks'[i] = retryTasks[i]
             /\ (retryTasks[i].state = "waiting" /\ retryTasks'[i] # retryTasks[i])
                   => /\ retryTasks'[i].state = IF ctxDone["frontier"] THEN "aborted" ELSE "due"
                      /\ stream' = stream
             /\ (retryTasks[i].state = "due" /\ retryTasks'[i] # retryTasks[i])
                   => /\ retryTasks'[i].state \in {"published", "failed"}
                      /\ retryTasks'[i].state = "failed" => stream' = stream
       /\ stream'["frontier"] # stream["frontier"]
             => \E i \in DOMAIN retryTasks :
                   /\ retryTasks[i].state = "due" /\ retryTasks'[i].state = "published"
                   /\ \A j \in DOMAIN retryTasks \ {i} : retryTasks'[j] = retryTasks[j]
                   /\ stream'["frontier"] =
                         Append(stream["frontier"],
                                URLMsg(retryTasks[i].url, retryTasks[i].depth))]_vars

C32_Witness ==
    /\ ctxDone["frontier"]
    /\ \E i, j \in DOMAIN retryTasks :
          /\ retryTasks[i].state = "published" /\ retryTasks[j].state = "aborted"
          /\ retryTasks[i].url = "u1" /\ retryTasks[j].url = "u1"
    /\ stream["frontier"] = <<BadPayload, URLMsg("u1", 0), URLMsg("u1", 0)>>
    /\ \A w \in CW : wk[w].pc \in {"idle", "stopped"}

\* ------------------------------------------ the parser's insert block alone
\* Two workers of one parser process, each with a page of its own whose links
\* lead to two other domains.
notInsertVars == <<baseVars, robotsVars, reaped, crun, runDone, pb>>

LinkURLs == {"x", "y"}
LinkDomain == [u \in LinkURLs |-> IF u = "x" THEN "dx" ELSE "dy"]
PageLinks == {<<"x">>, <<"y">>, <<"x", "y">>, <<"y", "x">>}

\* A call to the store or the broker from the insert block may fail while the
\* failures of the run are below MaxFaults.
InsertCall(ok) == ~ok => pins.faults < MaxFaults

Failures(n, ok) == IF ok THEN n ELSE n + 1

\* The loop over extractedURLs, one URL a step: LoadOrStore of its host.
InsertLoadOrStore(w) ==
    /\ pins.pw[w].pc = "loop"
    /\ LET l == pins.pw[w]
           domain == LinkDomain[l.validURLs[l.i + 1]]
           loaded == domain \in pins.cache
           unseen == IF loaded THEN l.unseenDomains ELSE l.unseenDomains \cup {domain}
       IN  pins' = [pins EXCEPT
                      !.cache = @ \cup {domain},
                      !.pw[w].i = @ + 1,
                      !.pw[w].unseenDomains = unseen,
                      !.pw[w].pc = IF l.i + 1 < Len(l.validURLs) THEN "loop"
                                   ELSE IF unseen # {} THEN "upsert" ELSE "bulk"]
    /\ UNCHANGED notInsertVars

\* The loop over unseenDomains (a map: any order), one UpsertDomain a step; on
\* error the entry is deleted and the loop goes on.
InsertUpsertDomain(w) ==
    /\ pins.pw[w].pc = "upsert"
    /\ \E domain \in pins.pw[w].unseenDomains, ok \in BOOLEAN :
          /\ InsertCall(ok)
          /\ pins' = [pins EXCEPT
                        !.faults = Failures(@, ok),
                        !.doms = IF ok THEN @ \cup {domain} ELSE @,
                        !.cache = IF ok THEN @ ELSE @ \ {domain},
                        !.pw[w].unseenDomains = @ \ {domain},
                        !.pw[w].pc = IF pins.pw[w].unseenDomains = {domain}
                                     THEN "bulk" ELSE "upsert"]
    /\ UNCHANGED notInsertVars

\* The first statement of the batch the server rejects: the INSERT of a new row
\* whose domain has no row.  Len(batch) + 1 when there is none.
FirstRejected(rows, doms, batch) ==
    LET bad == {k \in DOMAIN batch : batch[k] \notin rows /\ LinkDomain[batch[k]] \notin doms}
    IN  IF bad = {} THEN Len(batch) + 1
        ELSE CHOOSE k \in bad : \A j \in bad : k <= j

\* The URLs the loop over the results has appended when it has read n of them:
\* those whose statement returned a row.
Returned(rows, batch, n) ==
    LET Fresh(u) == u \notin rows IN SelectSeq(SubSeq(batch, 1, n), Fresh)

\* models.BulkInsertURLs(validURLs).  SendBatch runs the statements in one
\* implicit transaction; the loop reads one result per URL and returns what it
\* has appended together with the first error.  A rejected statement aborts the
\* transaction.  When the connection fails at the read of result cut, the
\* transaction was committed or not.
InsertBulk(w) ==
    /\ pins.pw[w].pc = "bulk"
    /\ LET batch == pins.pw[w].validURLs IN
       \E ok, commit \in BOOLEAN, cut \in DOMAIN batch :
          LET rejected == FirstRejected(pins.rows, pins.doms, batch)
              errAt == IF ok \/ rejected < cut THEN rejected ELSE cut
              committed == rejected > Len(batch) /\ commit
          IN  /\ InsertCall(ok)
              /\ ok => (commit /\ cut = 1)
              /\ pins' = [pins EXCEPT
                            !.faults = Failures(@, ok),
                            !.rows = IF committed THEN @ \cup {batch[k] : k \in DOMAIN batch}
                                     ELSE @,
                            !.pw[w].inserted = Returned(pins.rows, batch, errAt - 1),
                            !.pw[w].err = errAt <= Len(batch),
                            !.pw[w].pc = "publish"]
    /\ UNCHANGED notInsertVars

\* if len(inserted) > 0: PublishURLBatch of one URLMessage per element; its
\* error is logged.
InsertPublish(w) ==
    /\ pins.pw[w].pc = "publish"
    /\ IF pins.pw[w].inserted = <<>>
       THEN pins' = [pins EXCEPT !.pw[w].pc = "update"]
       ELSE \E ok \in BOOLEAN :
               /\ InsertCall(ok)
               /\ pins' = [pins EXCEPT
                             !.faults = Failures(@, ok),
                             !.frontier = IF ok THEN @ \o pins.pw[w].inserted ELSE @,
                             !.pw[w].pubErr = ~ok,
                             !.pw[w].pc = "update"]
    /\ UNCHANGED notInsertVars

\* UpdateURLParsed of the page, then Ack; on error Nack(false).
InsertUpdate(w) ==
    /\ pins.pw[w].pc = "update"
    /\ \E ok \in BOOLEAN :
          /\ InsertCall(ok)
          /\ pins' = [pins EXCEPT
                        !.faults = Failures(@, ok),
                        !.pw[w].parsed = ok,
                        !.pw[w].pc = IF ok THEN "acked" ELSE "requeued"]
    /\ UNCHANGED notInsertVars

\* The requeued ParseMessage is reclaimed and the page is processed again.
InsertRedeliver(w) ==
    /\ pins.pw[w].pc = "requeued"
    /\ pins' = [pins EXCEPT
                  !.pw[w] = [@ EXCEPT !.pc = "loop", !.i = 0, !.unseenDomains = {},
                                      !.inserted = <<>>, !.err = FALSE, !.pubErr = FALSE,
                                      !.runs = @ + 1]]
    /\ UNCHANGED notInsertVars

\* The domains and URLs that have rows when the two pages arrive (a row of the
\* urls table has its domain row), and what the process has in its domain set.
InitInsert ==
    /\ InitCommon
    /\ InitScenario([seeds |-> {}, frontier |-> <<>>, parse |-> <<>>, on |-> {}])
    /\ arg = <<0, 0>>
    /\ out = -1
    /\ backlog = 0
    /\ LimiterIdle /\ DnsIdle /\ ProxyIdle
    /\ RobotsIdle /\ ReaperIdle /\ RunIdle /\ BatchIdle
    /\ \E doms \in SUBSET {"dx", "dy"}, links \in [PW -> PageLinks] :
       \E rows \in SUBSET {u \in LinkURLs : LinkDomain[u] \in doms}, cache \in SUBSET doms :
          pins = [rows |-> rows, doms |-> doms, cache |-> cache, frontier |-> <<>>,
                  faults |-> 0,
                  pw |-> [w \in PW |->
                            [pc |-> "loop", validURLs |-> links[w], i |-> 0,
                             unseenDomains |-> {}, inserted |-> <<>>, err |-> FALSE,
                             pubErr |-> FALSE, parsed |-> FALSE, runs |-> 1]]]

NextInsert ==
    \/ \E w \in PW : InsertLoadOrStore(w)
    \/ \E w \in PW : InsertUpsertDomain(w)
    \/ \E w \in PW : InsertBulk(w)
    \/ \E w \in PW : InsertPublish(w)
    \/ \E w \in PW : InsertUpdate(w)
    \/ \E w \in PW : InsertRedeliver(w)

SpecInsert == InitInsert /\ [][NextInsert]_vars

\* ---- C33
\* C33: no URL is published to Frontier by the parser process more than once,
\* whatever pages its workers handle and whatever calls fail.
C33_PublishedAtMostOnce ==
    \A u \in LinkURLs :
       Cardinality({k \in DOMAIN pins.frontier : pins.frontier[k] = u}) <= 1

\* ---- C34
\* C34: the crawler's success path runs in the order PutObject, UpdateURLCrawled,
\* PublishParse, Ack.  Every ParseMessage the crawler has put on the Parse
\* stream names a URL whose blob is stored and whose row carries the locator
\* of the message, the row is crawled when the update returns, and a worker
\* that acknowledges a page it fetched has published the page's ParseMessage.
C34_ParseMsgAfterStoreAndUpdate ==
    /\ [](\A i \in DOMAIN stream["parse"] :
             LET m == stream["parse"][i] IN
             (m.kind = "parse" /\ m.link # BadLink)
                => /\ m.link = Link(m.url)
                   /\ htmlStore[m.url] # Null
                   /\ urls[m.url].html = m.link)
    /\ [](\A w \in CW :
             (wk[w].pc = "ack" /\ wk[w].data # Null)
                => \E i \in DOMAIN stream["parse"] :
                      stream["parse"][i] =
                         ParseMsg(wk[w].body.url, Link(wk[w].body.url), wk[w].body.depth))
    /\ [][\A w \in CW :
             LET u == wk[w].body.url IN
             /\ (wk[w].pc = "store" /\ wk'[w] # wk[w])
                   => /\ wk'[w].pc \in {"update", "nackRequeue"}
                      /\ wk'[w].pc = "update" => htmlStore'[u] = wk[w].data
                      /\ urls' = urls /\ stream' = stream
             /\ (wk[w].pc = "update" /\ wk'[w] # wk[w])
                   => /\ wk'[w].pc \in {"publish", "nackRequeue"}
                      /\ htmlStore[u] # Null
                      /\ wk'[w].pc = "publish"
                            => /\ urls'[u].status = StatusCrawled
                               /\ urls'[u].html = Link(u)
                      /\ stream' = stream
             /\ (wk[w].pc = "publish" /\ wk'[w] # wk[w])
                   => /\ wk'[w].pc \in {"ack", "nackRequeue"}
                      /\ urls[u].html = Link(u) /\ htmlStore[u] # Null
                      /\ wk'[w].pc = "ack"
                            => stream'["parse"] =
                                  Append(stream["parse"], ParseMsg(u, Link(u), wk[w].body.depth))
                      /\ wk'[w].pc = "nackRequeue" => stream' = stream
                      /\ pel' = pel
             /\ stream'["parse"] # stream["parse"]
                   => \E v \in CW : wk[v].pc = "publish" /\ wk'[v].pc = "ack"]_vars

C34_Witness ==
    \E w \in CW :
       /\ wk[w].pc = "idle" /\ wk[w].lastCall = "ack" /\ wk[w].lastOk
       /\ wk[w].data = PageBody["u1"] /\ wk[w].body = URLMsg("u1", 0)
       /\ stream["parse"] = <<ParseMsg("u1", Link("u1"), 0)>>
       /\ urls["u1"].status = StatusCrawled /\ urls["u1"].html = Link("u1")
       /\ htmlStore["u1"] = PageBody["u1"]
       /\ wk[w].d \notin pel["frontier"]

\* ---- C35
\* C35: a worker whose UpsertDomain fails deletes the domain from the set of
\* its process; the crawler worker then requeues its delivery without a claim,
\* the parser worker goes on.  A worker that does not find the domain in the
\* set makes the upsert, and the domain is in the set of a process only while
\* the domain has its row or a worker of the process is making the upsert.
UpsertInProgress(proc) ==
    \E w \in Workers :
       StreamOf(w) = proc /\ wk[w].pc = (IF w \in CW THEN "upsert" ELSE "upsertDom")

C35_FailedUpsertLeavesSet ==
    /\ [](\A proc \in Streams :
             Domain \in domainCache[proc]
                => (Domain \in domainRows \/ UpsertInProgress(proc)))
    /\ [][\A w \in Workers :
             LET proc == StreamOf(w)
                 start == IF w \in CW THEN "domain" ELSE "insert"
                 call == IF w \in CW THEN "upsert" ELSE "upsertDom"
                 failed == faults' # faults \/ ctxDone[proc]
             IN  /\ (wk[w].pc = start /\ wk'[w] # wk[w] /\ wk'[w].pc # "parsed"
                        /\ Domain \notin domainCache[proc])
                       => /\ wk'[w].pc = call
                          /\ Domain \in domainCache'[proc]
                          /\ dbVars' = dbVars
                 /\ (wk[w].pc = call /\ wk'[w] # wk[w] /\ failed)
                       => /\ Domain \notin domainCache'[proc]
                          /\ dbVars' = dbVars
                          /\ wk'[w].pc = IF w \in CW THEN "nackRequeue" ELSE "bulk"
                 /\ (wk[w].pc = call /\ wk'[w] # wk[w] /\ ~failed)
                       => /\ Domain \in domainRows' /\ domainCache' = domainCache
                          /\ wk'[w].pc = IF w \in CW THEN "claim" ELSE "bulk"
                 /\ (w \in CW /\ wk[w].pc = "nackRequeue" /\ wk'[w] # wk[w])
                       => wk'[w].pc = "idle" /\ urls' = urls]_vars

C35_Witness ==
    /\ faults = 1
    /\ Domain \notin domainRows
    /\ Domain \notin domainCache["frontier"]
    /\ \A u \in URLs : urls[u].status = NoRow
    /\ \E w \in CW :
          /\ wk[w].pc = "idle" /\ wk[w].lastCall = "requeue"
          /\ wk[w].body = URLMsg("u1", 0) /\ wk[w].d \in pel["frontier"]
    /\ \A w \in CW : wk[w].pc \in {"idle", "off"}

\* ---- C36
\* C36: when no call fails, a parser worker that executes the bulk insert finds
\* the domain row of every URL of its batch in place.
C36_DomainRowBeforeInsert ==
    [][\A w \in PW :
          (/\ pins.pw # <<>>
           /\ pins.pw[w].pc = "bulk" /\ pins'.pw[w].pc # "bulk"
           /\ pins'.faults = 0)
             => \A k \in DOMAIN pins.pw[w].validURLs :
                   LinkDomain[pins.pw[w].validURLs[k]] \in pins.doms]_vars

Processing(w) == wk[w].pc \notin {"idle", "off", "stopped"}

C38_OneWorkerPerEntry ==
    \A v, w \in Workers :
       (v # w /\ StreamOf(v) = StreamOf(w) /\ Processing(v) /\ Processing(w))
          => wk[v].d # wk[w].d

\* ---- C39
\* C39: a parser worker that handles a ParseMessage whose row is already
\* parsed leaves the row as it is (status parsed, same content hash, same text
\* locator) and publishes nothing to Frontier.
C39_RedeliveryKeepsParsed ==
    [][\A w \in PW :
          LET u == wk[w].body.url IN
          (/\ Processing(w) /\ wk'[w] # wk[w]
           /\ wk[w].body.kind = "parse"
           /\ urls[u].status = StatusParsed)
             => /\ urls'[u].status = StatusParsed
                /\ urls'[u].hash = urls[u].hash
                /\ urls'[u].text = urls[u].text
                /\ stream'["frontier"] = stream["frontier"]]_vars

\* ---- C40
\* Every parser worker that can take a step of the insert block takes it.
InsertStep(w) ==
    \/ InsertLoadOrStore(w) \/ InsertUpsertDomain(w) \/ InsertBulk(w)
    \/ InsertPublish(w) \/ InsertUpdate(w) \/ InsertRedeliver(w)

SpecInsertLive == SpecInsert /\ \A w \in PW : WF_vars(InsertStep(w))

\* C40: a URL whose row a parser worker's bulk insert has created is on the
\* Frontier stream at some later time.
C40_InsertedEventuallyPublished ==
    \A u \in LinkURLs :
       (/\ pins.pw # <<>>
        /\ u \in pins.rows
        /\ \E w \in PW : u \in Range(pins.pw[w].inserted))
          ~> (u \in Range(pins.frontier))

====
